---- MODULE Spec2Model ----
(***************************************************************************)
(* Model of the contact scraper: URL discovery and prioritisation          *)
(* (discover_urls), contact extraction (OxylabsScraper, ContactSpider)     *)
(* and contact cleaning / de-duplication (clean_contact_data,              *)
(* clean_and_deduplicate_contacts).                                        *)
(*                                                                         *)
(* A Python str is a sequence of one-character strings, so that strip,     *)
(* split, lower, replace and the `in` substring test are computed and not  *)
(* assumed.  None and a non-str value are two marker sequences that no str *)
(* can equal (their single element is longer than one character).          *)
(***************************************************************************)
EXTENDS Integers, Sequences, FiniteSets, TLC

\* ------------------------------------------------------------------------
\* Python values and the str methods the code calls
\* ------------------------------------------------------------------------

None == <<"None">>

\* a value that is neither None nor a str (e.g. a JSON number): truthy
NonStr == <<"int">>

isinstance_str(v) == v # None /\ v # NonStr

\* Python truthiness of None / str / non-str
truthy(v) == v # None /\ v # <<>>

Whitespace == {" ", "\t", "\n"}

UPPER == <<"A","B","C","D","E","F","G","H","I","J","K","L","M",
           "N","O","P","Q","R","S","T","U","V","W","X","Y","Z">>

LOWER == <<"a","b","c","d","e","f","g","h","i","j","k","l","m",
           "n","o","p","q","r","s","t","u","v","w","x","y","z">>

Digits == {"0","1","2","3","4","5","6","7","8","9"}

lower_char(c) ==
    IF \E i \in DOMAIN UPPER : UPPER[i] = c
    THEN LOWER[CHOOSE i \in DOMAIN UPPER : UPPER[i] = c]
    ELSE c

\* str.lower()
str_lower(s) == [i \in 1..Len(s) |-> lower_char(s[i])]

RECURSIVE str_lstrip(_)
str_lstrip(s) ==
    IF s # <<>> /\ Head(s) \in Whitespace THEN str_lstrip(Tail(s)) ELSE s

RECURSIVE str_rstrip(_)
str_rstrip(s) ==
    IF s # <<>> /\ s[Len(s)] \in Whitespace
    THEN str_rstrip(SubSeq(s, 1, Len(s) - 1))
    ELSE s

\* str.strip()
str_strip(s) == str_rstrip(str_lstrip(s))

\* sub in s
str_contains(s, sub) ==
    \E i \in 1..(Len(s) - Len(sub) + 1) : SubSeq(s, i, i + Len(sub) - 1) = sub

str_startswith(s, p) == Len(s) >= Len(p) /\ SubSeq(s, 1, Len(p)) = p

str_endswith(s, p) ==
    Len(s) >= Len(p) /\ SubSeq(s, Len(s) - Len(p) + 1, Len(s)) = p

\* str.isdigit()
str_isdigit(s) == s # <<>> /\ \A i \in 1..Len(s) : s[i] \in Digits

\* s.split(sep) for a one-character separator
RECURSIVE str_split(_, _)
str_split(s, sep) ==
    IF \A i \in 1..Len(s) : s[i] # sep
    THEN <<s>>
    ELSE LET k == CHOOSE i \in 1..Len(s) :
                      s[i] = sep /\ \A j \in 1..(i - 1) : s[j] # sep
         IN  <<SubSeq(s, 1, k - 1)>> \o str_split(SubSeq(s, k + 1, Len(s)), sep)

\* s.replace(old, '') : every non-overlapping occurrence, left to right
RECURSIVE str_remove(_, _)
str_remove(s, old) ==
    IF Len(s) < Len(old) THEN s
    ELSE IF SubSeq(s, 1, Len(old)) = old
         THEN str_remove(SubSeq(s, Len(old) + 1, Len(s)), old)
         ELSE <<Head(s)>> \o str_remove(Tail(s), old)

\* ------------------------------------------------------------------------
\* clean_contact_data
\* ------------------------------------------------------------------------

\* "Clean email"
clean_email_field(email) ==
    IF truthy(email) /\ isinstance_str(email) /\ str_contains(email, <<"@">>)
    THEN LET stripped == str_strip(email)
             email_parts == str_split(stripped, "@")
         IN  IF Len(email_parts) = 2
             THEN str_strip(email_parts[1]) \o <<"@">> \o str_strip(email_parts[2])
             ELSE stripped
    ELSE None

\* "Clean phone"
clean_phone_field(phone) ==
    IF truthy(phone) /\ isinstance_str(phone)
    THEN LET p == str_strip(phone)
         IN  IF p # <<>> /\ Len(p) >= 7 /\ ~str_isdigit(p) THEN p ELSE None
    ELSE None

\* clean_text_field with the length tested before the strip, not after
clean_text_field_len_first(v) ==
    IF truthy(v) /\ isinstance_str(v)
    THEN IF Len(v) > 2 /\ str_strip(v) # <<>> THEN str_strip(v) ELSE None
    ELSE None

\* "Clean name" / designation / university / department: the same code four times
clean_text_field(v) ==
    IF truthy(v) /\ isinstance_str(v)
    THEN LET t == str_strip(v)
         IN  IF t # <<>> /\ Len(t) > 2 THEN t ELSE None
    ELSE None

clean_contact_data(contact) ==
    [email        |-> clean_email_field(contact.email),
     phone        |-> clean_phone_field(contact.phone),
     name         |-> clean_text_field(contact.name),
     designation  |-> clean_text_field(contact.designation),
     university   |-> clean_text_field(contact.university),
     department   |-> clean_text_field(contact.department),
     source_url   |-> contact.source_url,
     scraped_date |-> contact.scraped_date]

\* ------------------------------------------------------------------------
\* clean_and_deduplicate_contacts
\* ------------------------------------------------------------------------

\* dedup_step keyed by the raw email instead of the cleaned one
dedup_step_raw_key(st, contact) ==
    LET cleaned_contact == clean_contact_data(contact)
        email == contact.email
    IN  IF truthy(cleaned_contact.email) /\ email \notin st.seen_emails
        THEN [unique_contacts |-> Append(st.unique_contacts, cleaned_contact),
              seen_emails     |-> st.seen_emails \cup {email}]
        ELSE st

\* one iteration of the loop over contacts: st = [unique_contacts, seen_emails]
dedup_step(st, contact) ==
    LET cleaned_contact == clean_contact_data(contact)
        email == cleaned_contact.email
    IN  IF truthy(email) /\ email \notin st.seen_emails
        THEN [unique_contacts |-> Append(st.unique_contacts, cleaned_contact),
              seen_emails     |-> st.seen_emails \cup {email}]
        ELSE st

RECURSIVE dedup_loop(_, _)
dedup_loop(st, contacts) ==
    IF contacts = <<>> THEN st
    ELSE dedup_loop(dedup_step(st, Head(contacts)), Tail(contacts))

clean_and_deduplicate_contacts(contacts) ==
    dedup_loop([unique_contacts |-> <<>>, seen_emails |-> {}], contacts).unique_contacts

\* ------------------------------------------------------------------------
\* DuplicateFilterPipeline (Scrapy path)
\* ------------------------------------------------------------------------

\* DuplicateFilterPipeline.process_item: st = [emails_seen, items]; a
\* duplicate raises DropItem and the item is not passed on
process_item(st, item) ==
    LET email == item.email
    IN  IF truthy(email)
        THEN IF email \in st.emails_seen
             THEN st
             ELSE [emails_seen |-> st.emails_seen \cup {email},
                   items       |-> Append(st.items, item)]
        ELSE [emails_seen |-> st.emails_seen, items |-> Append(st.items, item)]

\* ------------------------------------------------------------------------
\* More str methods
\* ------------------------------------------------------------------------

is_upper(c) == \E i \in DOMAIN UPPER : UPPER[i] = c

is_lower(c) == \E i \in DOMAIN LOWER : LOWER[i] = c

upper_char(c) ==
    IF is_lower(c) THEN UPPER[CHOOSE i \in DOMAIN LOWER : LOWER[i] = c] ELSE c

\* str.isalpha()
str_isalpha(s) == s # <<>> /\ \A i \in 1..Len(s) : is_upper(s[i]) \/ is_lower(s[i])

\* str.capitalize()
str_capitalize(s) ==
    IF s = <<>> THEN s ELSE <<upper_char(Head(s))>> \o str_lower(Tail(s))

\* s.replace(a, b) for one-character a and b
str_replace_char(s, a, b) == [i \in 1..Len(s) |-> IF s[i] = a THEN b ELSE s[i]]

\* s.replace(a, '') for a one-character a
str_remove_char(s, a) == SelectSeq(s, LAMBDA c : c # a)

\* sep.join(parts)
RECURSIVE str_join(_, _)
str_join(sep, parts) ==
    IF parts = <<>> THEN <<>>
    ELSE IF Len(parts) = 1 THEN parts[1]
    ELSE parts[1] \o sep \o str_join(sep, Tail(parts))

\* s.split(): split on runs of whitespace, no empty words
RECURSIVE str_split_ws(_)
str_split_ws(s) ==
    LET t == str_lstrip(s)
    IN  IF t = <<>> THEN <<>>
        ELSE LET ends == {i \in 1..Len(t) : t[i] \in Whitespace}
                 n == IF ends = {} THEN Len(t) + 1
                      ELSE CHOOSE i \in ends : \A j \in ends : i <= j
             IN  <<SubSeq(t, 1, n - 1)>> \o str_split_ws(SubSeq(t, n, Len(t)))

\* ------------------------------------------------------------------------
\* OxylabsScraper.looks_like_name / looks_like_designation
\* ------------------------------------------------------------------------

exclude_keywords ==
    { <<"e","m","a","i","l">>, <<"p","h","o","n","e">>,
      <<"c","o","n","t","a","c","t">>, <<"e","n","q","u","i","r","y">>,
      <<"i","n","q","u","i","r","y">>, <<"g","e","n","e","r","a","l">>,
      <<"i","n","f","o","r","m","a","t","i","o","n">>,
      <<"c","l","i","c","k">>, <<"h","e","r","e">>, <<"h","t","t","p">>,
      <<"w","w","w">>, <<"s","u","b","j","e","c","t">>,
      <<"m","e","s","s","a","g","e">>, <<"p","l","e","a","s","e">>,
      <<"c","o","p","y","r","i","g","h","t">>,
      <<"u","n","i","v","e","r","s","i","t","y">>,
      <<"c","o","l","l","e","g","e">>, <<"s","c","h","o","o","l">>,
      <<"d","e","p","a","r","t","m","e","n","t">>,
      <<"f","a","c","u","l","t","y">>, <<"o","f","f","i","c","e">> }

title_prefixes ==
    { <<"D","r">>, <<"D","r",".">>, <<"P","r","o","f">>,
      <<"P","r","o","f",".">>, <<"P","r","o","f","e","s","s","o","r">>,
      <<"M","r">>, <<"M","r",".">>, <<"M","r","s">>, <<"M","r","s",".">>,
      <<"M","s">>, <<"M","s",".">>, <<"M","i","s","s">> }

designation_keywords ==
    { <<"p","r","o","f","e","s","s","o","r">>,
      <<"l","e","c","t","u","r","e","r">>, <<"d","e","a","n">>,
      <<"h","e","a","d">>, <<"d","i","r","e","c","t","o","r">>,
      <<"m","a","n","a","g","e","r">>,
      <<"c","o","o","r","d","i","n","a","t","o","r">>,
      <<"s","e","n","i","o","r">>, <<"j","u","n","i","o","r">>,
      <<"a","s","s","o","c","i","a","t","e">>,
      <<"a","s","s","i","s","t","a","n","t">>,
      <<"o","f","f","i","c","e","r">>,
      <<"e","x","e","c","u","t","i","v","e">>, <<"l","e","a","d">>,
      <<"l","e","a","d","e","r">>, <<"c","h","i","e","f">>,
      <<"s","p","e","c","i","a","l","i","s","t">>,
      <<"c","o","n","s","u","l","t","a","n","t">>,
      <<"a","d","v","i","s","o","r">>,
      <<"c","o","u","n","s","e","l","o","r">>,
      <<"p","r","o","g","r","a","m">>,
      <<"p","r","o","g","r","a","m","m","e">>,
      <<"f","a","c","u","l","t","y">>,
      <<"d","e","p","a","r","t","m","e","n","t">>,
      <<"a","c","a","d","e","m","i","c">>, <<"r","e","s","e","a","r","c","h">> }

\* the tail  \s+[A-Z]  of the three title patterns
ws_then_upper(rest) ==
    /\ rest # <<>>
    /\ Head(rest) \in Whitespace
    /\ LET r == str_lstrip(rest) IN r # <<>> /\ is_upper(Head(r))

RECURSIVE drop_lower(_)
drop_lower(s) == IF s # <<>> /\ is_lower(Head(s)) THEN drop_lower(Tail(s)) ELSE s

\* what is left of s after a match of  [A-Z][a-z]+  at its start, None if none
after_capitalized_word(s) ==
    IF s # <<>> /\ is_upper(Head(s)) /\ Len(s) >= 2 /\ is_lower(s[2])
    THEN drop_lower(Tail(s))
    ELSE None

\* r'^(Dr\.?|Prof\.?|Professor|Mr\.?|Mrs\.?|Ms\.?|Miss)\s+[A-Z]'
title_pattern_1(text) ==
    \E p \in title_prefixes :
        str_startswith(text, p) /\ ws_then_upper(SubSeq(text, Len(p) + 1, Len(text)))

\* r'^[A-Z][a-z]+\s+[A-Z]'
title_pattern_2(text) ==
    LET r == after_capitalized_word(text) IN r # None /\ ws_then_upper(r)

\* r'^[A-Z][a-z]+\s+[A-Z][a-z]+\s+[A-Z]'
title_pattern_3(text) ==
    LET r == after_capitalized_word(text)
    IN  /\ r # None
        /\ ws_then_upper(r)
        /\ LET r2 == after_capitalized_word(str_lstrip(r))
           IN  r2 # None /\ ws_then_upper(r2)

looks_like_name(text) ==
    IF ~truthy(text) \/ Len(text) < 3 \/ Len(text) > 100 THEN FALSE
    ELSE IF \E keyword \in exclude_keywords : str_contains(str_lower(text), keyword)
    THEN FALSE
    ELSE IF title_pattern_1(text) \/ title_pattern_2(text) \/ title_pattern_3(text)
    THEN TRUE
    ELSE LET words == str_split_ws(text)
             capitalized == Cardinality({i \in 1..Len(words) : is_upper(words[i][1])})
         IN  Len(words) >= 2 /\ Len(words) <= 5 /\ 2 * capitalized >= Len(words)

looks_like_designation(text) ==
    IF ~truthy(text) \/ Len(text) < 5 \/ Len(text) > 150 THEN FALSE
    ELSE \E keyword \in designation_keywords : str_contains(str_lower(text), keyword)

\* ------------------------------------------------------------------------
\* OxylabsScraper.extract_contact_from_context
\* ------------------------------------------------------------------------

\* time.strftime('%Y-%m-%d %H:%M:%S') at the time of the scrape
ScrapedDate == <<"d">>

MAILTO == <<"m","a","i","l","t","o",":">>

TEL == <<"t","e","l",":">>

name_classes ==
    { <<"n","a","m","e">>, <<"s","t","a","f","f">>,
      <<"f","a","c","u","l","t","y">>, <<"p","e","r","s","o","n">>,
      <<"p","r","o","f","i","l","e">>, <<"a","u","t","h","o","r">>,
      <<"c","o","n","t","a","c","t","-","n","a","m","e">> }

designation_classes ==
    { <<"t","i","t","l","e">>, <<"p","o","s","i","t","i","o","n">>,
      <<"d","e","s","i","g","n","a","t","i","o","n">>, <<"r","o","l","e">>,
      <<"j","o","b">> }

NewContact(email, source_url) ==
    [name |-> None, email |-> email, phone |-> None, designation |-> None,
     university |-> None, department |-> None,
     source_url |-> source_url, scraped_date |-> ScrapedDate]

\* "Strategy 1": firstname.lastname / firstname_lastname -> "Firstname Lastname"
username_fallback_name(email) ==
    IF truthy(email) /\ str_contains(email, <<"@">>)
    THEN LET username == str_split(email, "@")[1]
         IN  IF str_contains(username, <<".">>) \/ str_contains(username, <<"_">>)
             THEN LET parts == str_split(str_replace_char(username, "_", "."), ".")
                  IN  IF /\ Len(parts) >= 2
                         /\ \A i \in 1..Len(parts) :
                               /\ Len(parts[i]) > 1
                               /\ str_isalpha(str_remove_char(parts[i], "-"))
                      THEN str_join(<<" ">>,
                                    [i \in 1..Len(parts) |-> str_capitalize(parts[i])])
                      ELSE None
             ELSE None
    ELSE None

\* "for heading_tag in ['h1', ..., 'h6']": headings[k] is the text of the first
\* <hk> under the parent (None when there is none); the first that passes wins
RECURSIVE heading_name(_)
heading_name(headings) ==
    IF headings = <<>> THEN None
    ELSE IF Head(headings) # None /\ truthy(Head(headings))
            /\ looks_like_name(Head(headings))
    THEN Head(headings)
    ELSE heading_name(Tail(headings))

\* "for tag in parent.find_all(['strong', 'b', 'span', 'div', 'p'])"
RECURSIVE scan_tags(_, _)
scan_tags(c, tags) ==
    IF tags = <<>> THEN c
    ELSE LET tag == Head(tags)
             tag_classes == str_lower(tag.classes)
             c1 == IF /\ \E x \in name_classes : str_contains(tag_classes, x)
                      /\ truthy(tag.text) /\ looks_like_name(tag.text)
                   THEN [c EXCEPT !.name = tag.text]
                   ELSE c
             c2 == IF /\ \E x \in designation_classes : str_contains(tag_classes, x)
                      /\ truthy(tag.text) /\ looks_like_designation(tag.text)
                   THEN [c1 EXCEPT !.designation = tag.text]
                   ELSE c1
         IN  scan_tags(c2, Tail(tags))

\* a level that fills the name only when the contact has none yet
context_level_keeping_name(c, parent) ==
    LET c1 == IF ~truthy(c.phone) /\ parent.tel_hrefs # <<>>
              THEN [c EXCEPT !.phone = str_strip(str_remove(parent.tel_hrefs[1], TEL))]
              ELSE c
        found == scan_tags(IF heading_name(parent.headings) # None
                           THEN [c1 EXCEPT !.name = heading_name(parent.headings)]
                           ELSE c1,
                           parent.tags)
    IN  IF truthy(c.name) THEN [found EXCEPT !.name = c.name] ELSE found

\* body of "for parent_level in range(3)" for one existing parent
context_level(c, parent) ==
    LET c1 == IF ~truthy(c.phone) /\ parent.tel_hrefs # <<>>
              THEN [c EXCEPT !.phone = str_strip(str_remove(parent.tel_hrefs[1], TEL))]
              ELSE c
        hn == heading_name(parent.headings)
        c2 == IF hn # None THEN [c1 EXCEPT !.name = hn] ELSE c1
    IN  scan_tags(c2, parent.tags)

RECURSIVE context_levels(_, _)
context_levels(c, ancestors) ==
    IF ancestors = <<>> THEN c
    ELSE context_levels(context_level(c, Head(ancestors)), Tail(ancestors))

needs_ai(c) ==
    ~truthy(c.name) \/ str_contains(c.name, <<"@">>) \/ Len(c.name) < 3

\* a step that takes every field the AI answered
overwrite_from_ai(c, ai_result) ==
    [c EXCEPT
       !.name = IF truthy(ai_result.name) THEN ai_result.name ELSE c.name,
       !.designation = IF truthy(ai_result.designation)
                       THEN ai_result.designation ELSE c.designation,
       !.phone = IF truthy(ai_result.phone) THEN ai_result.phone ELSE c.phone,
       !.department = IF truthy(ai_result.department)
                      THEN ai_result.department ELSE c.department]

\* "Use AI results to fill missing fields"
fill_from_ai(c, ai_result) ==
    [c EXCEPT
       !.name = IF truthy(ai_result.name) /\ ~truthy(c.name)
                THEN ai_result.name ELSE c.name,
       !.designation = IF truthy(ai_result.designation) /\ ~truthy(c.designation)
                       THEN ai_result.designation ELSE c.designation,
       !.phone = IF truthy(ai_result.phone) /\ ~truthy(c.phone)
                 THEN ai_result.phone ELSE c.phone,
       !.department = IF truthy(ai_result.department) /\ ~truthy(c.department)
                      THEN ai_result.department ELSE c.department]

\* "for parent_level in range(3)"
parent_levels == 3

\* the parents the loop reaches: the nearest parent_levels ancestors
examined_parents(ancestors) ==
    SubSeq(ancestors, 1, IF Len(ancestors) < parent_levels THEN Len(ancestors)
                         ELSE parent_levels)

\* the contact before the AI step: fallback name, then the three parent levels
heuristic_contact(email_element, email, source_url) ==
    LET c0 == NewContact(email, source_url)
        fallback_name == username_fallback_name(email)
        c1 == IF fallback_name # None THEN [c0 EXCEPT !.name = fallback_name] ELSE c0
    IN  context_levels(c1, examined_parents(email_element.ancestors))

\* "if use_ai and self.ai_extractor.enabled: needs_ai = ..."
calls_ai(h, use_ai) == use_ai /\ needs_ai(h)

\* the AI step on the heuristic contact h, and "if contact['email']: return"
ai_step(h, ai_result, use_ai) ==
    [contacts     |-> IF ~truthy(h.email) THEN <<>>
                      ELSE IF calls_ai(h, use_ai) THEN <<fill_from_ai(h, ai_result)>>
                      ELSE <<h>>,
     ai_calls     |-> IF calls_ai(h, use_ai) THEN 1 ELSE 0,
     ai_successes |-> IF calls_ai(h, use_ai) /\ truthy(ai_result.name) /\ ~truthy(h.name)
                      THEN 1 ELSE 0]

\* returns [contacts: <<>> or <<contact>>, ai_calls, ai_successes]
extract_contact_from_context(email_element, email, source_url, use_ai) ==
    ai_step(heuristic_contact(email_element, email, source_url),
            email_element.ai_result, use_ai)

\* ------------------------------------------------------------------------
\* OxylabsScraper.find_email_context
\* ------------------------------------------------------------------------

\* index of the first line that contains the email, 0 if none
email_line(lines, email) ==
    LET hits == {i \in 1..Len(lines) : str_contains(lines[i], email)}
    IN  IF hits = {} THEN 0 ELSE CHOOSE i \in hits : \A j \in hits : i <= j

\* "Look for name in previous lines (up to 3 lines before)"
name_from_lines(lines, i) ==
    LET ok == {j \in 1..(i - 1) : j >= i - 3 /\ truthy(lines[j]) /\ looks_like_name(lines[j])}
    IN  IF ok = {} THEN None ELSE lines[CHOOSE j \in ok : \A k \in ok : j <= k]

\* "Look for designation (current line and next 2 lines)"
designation_from_lines(lines, i) ==
    LET ok == {j \in i..Len(lines) :
                  j <= i + 2 /\ truthy(lines[j]) /\ looks_like_designation(lines[j])}
    IN  IF ok = {} THEN None ELSE lines[CHOOSE j \in ok : \A k \in ok : j <= k]

\* body of "for text_elem in all_text_elements" (the text node has a parent)
text_occurrence(c, occ) ==
    LET c1 == IF ~truthy(c.phone) /\ occ.tel_hrefs # <<>>
              THEN [c EXCEPT !.phone = str_strip(str_remove(occ.tel_hrefs[1], TEL))]
              ELSE c
        hn == heading_name(occ.headings)
        c2 == IF hn # None THEN [c1 EXCEPT !.name = hn] ELSE c1
        i  == email_line(occ.lines, c.email)
        ln == IF i = 0 THEN None ELSE name_from_lines(occ.lines, i)
        c3 == IF ln # None THEN [c2 EXCEPT !.name = ln] ELSE c2
        ld == IF i = 0 THEN None ELSE designation_from_lines(occ.lines, i)
    IN  IF ld # None THEN [c3 EXCEPT !.designation = ld] ELSE c3

RECURSIVE text_occurrences(_, _)
text_occurrences(c, occs) ==
    IF occs = <<>> THEN c
    ELSE text_occurrences(text_occurrence(c, Head(occs)), Tail(occs))

\* returns <<>> or <<contact>>
find_email_context(occs, email, source_url) ==
    LET c0 == NewContact(email, source_url)
        fallback_name == username_fallback_name(email)
        c1 == IF fallback_name # None THEN [c0 EXCEPT !.name = fallback_name] ELSE c0
        c  == text_occurrences(c1, occs)
    IN  IF truthy(c.email) THEN <<c>> ELSE <<>>

\* ------------------------------------------------------------------------
\* OxylabsScraper.extract_contact_from_element
\* ------------------------------------------------------------------------

\* first text whose strip() is non-empty, stripped
RECURSIVE first_nonblank(_)
first_nonblank(texts) ==
    IF texts = <<>> THEN None
    ELSE IF str_strip(Head(texts)) # <<>> THEN str_strip(Head(texts))
    ELSE first_nonblank(Tail(texts))

\* email: first regex match in the text, else the first mailto: anchor
element_email(element) ==
    LET email == IF element.text_emails # <<>> THEN element.text_emails[1] ELSE None
    IN  IF ~truthy(email) /\ element.mailto_hrefs # <<>>
        THEN str_strip(str_remove(element.mailto_hrefs[1], MAILTO))
        ELSE email

\* phone: ''.join(phones[0]) of the first regex match, else the first tel: anchor
element_phone(element) ==
    LET phone == IF element.phone_groups # <<>> THEN element.phone_groups[1] ELSE None
    IN  IF ~truthy(phone) /\ element.tel_hrefs # <<>>
        THEN str_strip(str_remove(element.tel_hrefs[1], TEL))
        ELSE phone

extract_contact_from_element(element, source_url) ==
    [name         |-> first_nonblank(element.name_texts),
     email        |-> element_email(element),
     phone        |-> element_phone(element),
     designation  |-> first_nonblank(element.designation_texts),
     university   |-> first_nonblank(element.university_texts),
     department   |-> first_nonblank(element.department_texts),
     source_url   |-> source_url,
     scraped_date |-> ScrapedDate]

\* ------------------------------------------------------------------------
\* OxylabsScraper.extract_contacts_from_html
\* ------------------------------------------------------------------------

contact_selectors ==
    << ".contact-card", ".contact-info", ".person-card",
       ".staff-member", ".faculty-member", ".team-member", ".profile",
       ".employee", ".directory-entry", ".counselor", ".advisor",
       ".staff-card", ".faculty-card", ".person-profile",
       "[class*=staff-member]", "[class*=faculty-member]",
       "[class*=person-card]", "[class*=contact-card]",
       "[class*=team-member]", "[class*=employee]" >>

\* soup.select(selector) for a page that lists its non-empty selections
select(selections, selector) ==
    IF \E s \in selections : s.selector = selector
    THEN (CHOOSE s \in selections : s.selector = selector).elements
    ELSE <<>>

\* index of the first selector that selects anything, 0 if none does
first_selector_hit(selectors, selections) ==
    LET hits == {i \in 1..Len(selectors) : select(selections, selectors[i]) # <<>>}
    IN  IF hits = {} THEN 0 ELSE CHOOSE i \in hits : \A j \in hits : i <= j

\* a filter that lets every candidate through
accepts_any_contact(c) == c = c

\* "if contact and (contact.get('email') or contact.get('phone'))"
has_email_or_phone(c) == truthy(c.email) \/ truthy(c.phone)

\* "for selector in contact_selectors": the first selector with matches is used
structural_contacts(page) ==
    LET k == first_selector_hit(contact_selectors, page.selections)
    IN  IF k = 0 THEN <<>>
        ELSE LET contact_elements == select(page.selections, contact_selectors[k])
             IN  SelectSeq([i \in 1..Len(contact_elements) |->
                              extract_contact_from_element(contact_elements[i],
                                                           page.source_url)],
                           has_email_or_phone)

\* "email = href.replace('mailto:', '').strip()"
mailto_email(mailto_link) == str_strip(str_remove(mailto_link.href, MAILTO))

\* "if email and '@' in email: ... if contact: contacts.append(contact)"
mailto_step(acc, email, r) ==
    IF truthy(email) /\ str_contains(email, <<"@">>)
    THEN [contacts     |-> acc.contacts \o r.contacts,
          ai_calls     |-> acc.ai_calls + r.ai_calls,
          ai_successes |-> acc.ai_successes + r.ai_successes]
    ELSE acc

\* "for mailto_link in mailto_links": acc = [contacts, ai_calls, ai_successes]
RECURSIVE mailto_loop(_, _, _, _)
mailto_loop(acc, mailto_links, source_url, use_ai) ==
    IF mailto_links = <<>> THEN acc
    ELSE mailto_loop(mailto_step(acc, mailto_email(Head(mailto_links)),
                                 extract_contact_from_context(
                                     Head(mailto_links), mailto_email(Head(mailto_links)),
                                     source_url, use_ai)),
                     Tail(mailto_links), source_url, use_ai)

\* "for email in set(emails)": emails is one iteration order of the set
RECURSIVE text_email_loop(_, _)
text_email_loop(emails, page) ==
    IF emails = <<>> THEN <<>>
    ELSE find_email_context(page.text_nodes[Head(emails)], Head(emails), page.source_url)
         \o text_email_loop(Tail(emails), page)

\* ------------------------------------------------------------------------
\* ContactSpider.extract_contact_from_element / extract_contacts
\* ------------------------------------------------------------------------

spider_selectors ==
    << ".contact-card", ".contact-info", ".contact", ".person-card",
       ".staff-member", ".faculty-member", ".team-member", ".profile",
       ".employee", ".directory-entry", "[class*=contact]",
       "[class*=staff]", "[class*=faculty]", "[class*=member]" >>

page_keywords ==
    { <<"c","o","n","t","a","c","t">>, <<"s","t","a","f","f">>,
      <<"f","a","c","u","l","t","y">>,
      <<"d","i","r","e","c","t","o","r","y">>, <<"p","e","o","p","l","e">>,
      <<"t","e","a","m">>, <<"a","b","o","u","t">> }

\* s.split(sub)[0]
str_before(s, sub) ==
    LET hits == {i \in 1..(Len(s) - Len(sub) + 1) : SubSeq(s, i, i + Len(sub) - 1) = sub}
    IN  IF hits = {} \/ sub = <<>> THEN s
        ELSE SubSeq(s, 1, (CHOOSE i \in hits : \A j \in hits : i <= j) - 1)

\* name: the first selector text with more than 2 characters after strip()
RECURSIVE spider_first_name(_)
spider_first_name(texts) ==
    IF texts = <<>> THEN None
    ELSE IF truthy(Head(texts)) /\ Len(str_strip(Head(texts))) > 2
    THEN str_strip(Head(texts))
    ELSE spider_first_name(Tail(texts))

\* "If no name found, try to extract from text near email"
spider_name_near_email(text_content, email) ==
    LET text_parts == str_split_ws(str_before(text_content, email))
        n == Len(text_parts)
        potential_name == IF n >= 2
                          THEN str_join(<<" ">>,
                                        SubSeq(text_parts, IF n > 4 THEN n - 3 ELSE 1, n))
                          ELSE None
    IN  IF truthy(potential_name) /\ 5 < Len(potential_name) /\ Len(potential_name) < 50
        THEN str_strip(potential_name)
        ELSE None

\* designation / university / department: the first selector text that is truthy
RECURSIVE spider_first_truthy(_)
spider_first_truthy(texts) ==
    IF texts = <<>> THEN None
    ELSE IF truthy(Head(texts)) THEN str_strip(Head(texts))
    ELSE spider_first_truthy(Tail(texts))

spider_extract_contact_from_element(element, source_url) ==
    LET email == element_email(element)
        name  == spider_first_name(element.name_texts)
    IN  [name         |-> IF ~truthy(name) /\ truthy(email)
                          THEN spider_name_near_email(element.text_content, email)
                          ELSE name,
         email        |-> email,
         phone        |-> element_phone(element),
         designation  |-> spider_first_truthy(element.designation_texts),
         university   |-> spider_first_truthy(element.university_texts),
         department   |-> spider_first_truthy(element.department_texts),
         source_url   |-> source_url,
         scraped_date |-> None]

spider_element_contacts(elements, source_url) ==
    SelectSeq([i \in 1..Len(elements) |->
                 spider_extract_contact_from_element(elements[i], source_url)],
              has_email_or_phone)

\* ------------------------------------------------------------------------
\* discover_urls_by_patterns, discover_urls
\* ------------------------------------------------------------------------

HTTPS == <<"h","t","t","p","s",":","/","/">>

\* the site under discovery: urlparse(start_url).netloc
BaseDomain == <<"u",".","e","d","u">>

StartUrl == HTTPS \o BaseDomain \o <<"/">>

\* urlparse(url).netloc of an absolute URL whose authority ends at a '/' or
\* at the end of the string; '' for anything else
url_netloc(url) ==
    LET parts == str_split(url, "/")
    IN  IF /\ Len(parts) >= 3
           /\ parts[2] = <<>>
           /\ parts[1] # <<>>
           /\ parts[1][Len(parts[1])] = ":"
        THEN parts[3]
        ELSE <<>>

patterns ==
    << <<"/","c","o","n","t","a","c","t">>,
       <<"/","c","o","n","t","a","c","t","-","u","s">>,
       <<"/","c","o","n","t","a","c","t","u","s">>,
       <<"/","c","o","n","t","a","c","t","s">>,
       <<"/","g","e","t","-","i","n","-","t","o","u","c","h">>,
       <<"/","r","e","a","c","h","-","u","s">>, <<"/","s","t","a","f","f">>,
       <<"/","s","t","a","f","f","-","d","i","r","e","c","t","o","r","y">>,
       <<"/","f","a","c","u","l","t","y">>,
       <<"/","f","a","c","u","l","t","y","-","d","i","r","e","c","t","o","r","y">>,
       <<"/","p","e","o","p","l","e">>, <<"/","t","e","a","m">>,
       <<"/","d","i","r","e","c","t","o","r","y">>,
       <<"/","o","u","r","-","s","t","a","f","f">>,
       <<"/","o","u","r","-","f","a","c","u","l","t","y">>,
       <<"/","a","b","o","u","t","/","s","t","a","f","f">>,
       <<"/","a","b","o","u","t","/","f","a","c","u","l","t","y">>,
       <<"/","a","b","o","u","t","/","c","o","n","t","a","c","t">>,
       <<"/","a","b","o","u","t","/","c","o","n","t","a","c","t","s">>,
       <<"/","s","u","p","p","o","r","t">>, <<"/","h","e","l","p">> >>

\* the pattern URLs that are not yet in discovered_urls, in pattern order
discover_urls_by_patterns(base_domain, discovered) ==
    SelectSeq([i \in 1..Len(patterns) |-> HTTPS \o base_domain \o patterns[i]],
              LAMBDA test_url : test_url \notin discovered)

\* the elements of s at the indices idx, in index order
select_indices(s, idx) ==
    [k \in 1..Cardinality(idx) |->
        s[CHOOSE i \in idx : Cardinality({j \in idx : j <= i}) = k]]

\* "for url in sitemap_urls": st = [discovered_urls, discovery_log,
\* urls_to_process]. A URL of the base domain is added and counted; when
\* max_pages <= 50 the loop breaks after the addition that brings the count
\* to max_pages * 3, so the URL of rank r among those of the base domain is
\* added iff r = 1 or r - 1 < max_pages * 3.
sitemap_loop(st, sitemap_urls, base_domain, pages) ==
    LET same_domain == {i \in 1..Len(sitemap_urls) :
                           url_netloc(sitemap_urls[i]) = base_domain}
        rank(i) == Cardinality({j \in same_domain : j <= i})
        added == {i \in same_domain : pages > 50 \/ rank(i) = 1 \/ rank(i) - 1 < pages * 3}
        new == {i \in added : /\ sitemap_urls[i] \notin st.discovered_urls
                              /\ \A j \in added : j < i => sitemap_urls[j] # sitemap_urls[i]}
    IN  [discovered_urls |-> st.discovered_urls \cup {sitemap_urls[i] : i \in added},
         discovery_log   |-> st.discovery_log \o select_indices(sitemap_urls, new),
         urls_to_process |-> st.urls_to_process \o select_indices(sitemap_urls, added)]

\* "for url in pattern_urls": new URLs go to the front of the queue
RECURSIVE pattern_loop(_, _)
pattern_loop(st, pattern_urls) ==
    IF pattern_urls = <<>> THEN st
    ELSE LET url == Head(pattern_urls)
         IN  pattern_loop(
                 IF url \notin st.discovered_urls
                 THEN [discovered_urls |-> st.discovered_urls \cup {url},
                       discovery_log   |-> Append(st.discovery_log, url),
                       urls_to_process |-> <<url>> \o st.urls_to_process]
                 ELSE st,
                 Tail(pattern_urls))

\* a request count the caller asked for, without the ceiling
uncapped_requests(requests) == requests

\* "min(deep_crawl_requests, 100)  # Cap at 100 for safety"
discovery_request_cap(requests) == IF requests < 100 THEN requests ELSE 100

\* a budget that does not look at the deep-crawl switch
budget_ignoring_switch(enabled, requests) == discovery_request_cap(requests)

\* max_discovery_requests as set before the crawl loop
discovery_budget(enabled, requests) ==
    IF ~enabled THEN 0 ELSE discovery_request_cap(requests)

staff_keywords ==
    { <<"s","t","a","f","f">>, <<"f","a","c","u","l","t","y">>,
      <<"d","i","r","e","c","t","o","r","y">>, <<"p","e","o","p","l","e">>,
      <<"t","e","a","m">>, <<"p","r","o","f","e","s","s","o","r">>,
      <<"l","e","c","t","u","r","e","r">>, <<"a","c","a","d","e","m","i","c">> }

\* a test that knows the keyword 'directory' only
is_directory_url(url) ==
    str_contains(str_lower(url), <<"d","i","r","e","c","t","o","r","y">>)

is_staff_url(url) ==
    \E keyword \in staff_keywords : str_contains(str_lower(url), keyword)

skipped_extensions ==
    { <<".","p","d","f">>, <<".","d","o","c">>, <<".","d","o","c","x">>,
      <<".","x","l","s">>, <<".","x","l","s","x">>, <<".","z","i","p">>,
      <<".","r","a","r">>, <<".","j","p","g">>, <<".","p","n","g">>,
      <<".","g","i","f">>, <<".","c","s","s">>, <<".","j","s">>,
      <<".","s","v","g">>, <<".","i","c","o">> }

\* clean_url: scheme://netloc/path, plus ?query when there is one
clean_url_of(parsed_url) ==
    parsed_url.scheme \o <<":","/","/">> \o parsed_url.netloc \o parsed_url.path
    \o (IF truthy(parsed_url.query) THEN <<"?">> \o parsed_url.query ELSE <<>>)

\* a test that does not look at the host
link_accepted_any_host(parsed_url, clean_url, base_domain, discovered) ==
    /\ clean_url \notin discovered
    /\ ~\E ext \in skipped_extensions : str_contains(str_lower(clean_url), ext)
    /\ ~str_startswith(clean_url, MAILTO)
    /\ ~str_startswith(clean_url, TEL)
    /\ ~str_endswith(clean_url, <<"#">>)

\* "Check if it's a valid URL from the same domain"
link_accepted(parsed_url, clean_url, base_domain, discovered) ==
    /\ parsed_url.netloc = base_domain
    /\ clean_url \notin discovered
    /\ ~\E ext \in skipped_extensions : str_contains(str_lower(clean_url), ext)
    /\ ~str_startswith(clean_url, MAILTO)
    /\ ~str_startswith(clean_url, TEL)
    /\ ~str_endswith(clean_url, <<"#">>)

\* "for link in soup.find_all('a', href=True)": links[i] is
\* urlparse(urljoin(current_url, href)), or raises when urljoin rejects the
\* href; the exception leaves the loop and is caught around the fetch
RECURSIVE link_loop(_, _, _)
link_loop(st, links, base_domain) ==
    IF links = <<>> THEN st
    ELSE LET parsed_url == Head(links)
             clean_url == clean_url_of(parsed_url)
         IN  IF parsed_url.raises THEN st
             ELSE link_loop(
                     IF link_accepted(parsed_url, clean_url, base_domain, st.discovered_urls)
                     THEN [discovered_urls |-> st.discovered_urls \cup {clean_url},
                           discovery_log   |-> Append(st.discovery_log, clean_url),
                           urls_to_process |-> IF is_staff_url(clean_url)
                                               THEN <<clean_url>> \o st.urls_to_process
                                               ELSE Append(st.urls_to_process, clean_url)]
                     ELSE st,
                     Tail(links), base_domain)

keyword_scores ==
    << [keyword |-> <<"p","r","o","f","e","s","s","o","r">>, score |-> 120],
       [keyword |-> <<"l","e","c","t","u","r","e","r">>, score |-> 120],
       [keyword |-> <<"d","r","-">>, score |-> 120],
       [keyword |-> <<"p","r","o","f","-">>, score |-> 120],
       [keyword |-> <<"a","s","s","o","c","i","a","t","e","-","p","r","o","f","e","s","s","o","r">>, score |-> 120],
       [keyword |-> <<"a","s","s","i","s","t","a","n","t","-","p","r","o","f","e","s","s","o","r">>, score |-> 120],
       [keyword |-> <<"c","o","n","t","a","c","t">>, score |-> 100],
       [keyword |-> <<"c","o","n","t","a","c","t","s">>, score |-> 100],
       [keyword |-> <<"c","o","n","t","a","c","t","-","u","s">>, score |-> 100],
       [keyword |-> <<"c","o","n","t","a","c","t","u","s">>, score |-> 100],
       [keyword |-> <<"d","i","r","e","c","t","o","r","y">>, score |-> 100],
       [keyword |-> <<"s","t","a","f","f","-","d","i","r","e","c","t","o","r","y">>, score |-> 100],
       [keyword |-> <<"f","a","c","u","l","t","y","-","d","i","r","e","c","t","o","r","y">>, score |-> 100],
       [keyword |-> <<"p","e","o","p","l","e","-","d","i","r","e","c","t","o","r","y">>, score |-> 100],
       [keyword |-> <<"s","t","a","f","f">>, score |-> 80],
       [keyword |-> <<"f","a","c","u","l","t","y">>, score |-> 80],
       [keyword |-> <<"t","e","a","m">>, score |-> 80],
       [keyword |-> <<"p","e","o","p","l","e">>, score |-> 80],
       [keyword |-> <<"e","m","p","l","o","y","e","e">>, score |-> 80],
       [keyword |-> <<"p","e","r","s","o","n","n","e","l">>, score |-> 80],
       [keyword |-> <<"a","c","a","d","e","m","i","c","-","s","t","a","f","f">>, score |-> 80],
       [keyword |-> <<"f","a","c","u","l","t","y","-","m","e","m","b","e","r","s">>, score |-> 80],
       [keyword |-> <<"t","e","a","c","h","i","n","g","-","s","t","a","f","f">>, score |-> 80],
       [keyword |-> <<"r","e","s","e","a","r","c","h","-","s","t","a","f","f">>, score |-> 80],
       [keyword |-> <<"a","b","o","u","t">>, score |-> 60],
       [keyword |-> <<"a","b","o","u","t","-","u","s">>, score |-> 60],
       [keyword |-> <<"a","b","o","u","t","u","s">>, score |-> 60],
       [keyword |-> <<"d","e","p","a","r","t","m","e","n","t">>, score |-> 60],
       [keyword |-> <<"d","e","p","a","r","t","m","e","n","t","s">>, score |-> 60],
       [keyword |-> <<"s","c","h","o","o","l">>, score |-> 60],
       [keyword |-> <<"a","d","m","i","n","i","s","t","r","a","t","i","o","n">>, score |-> 60],
       [keyword |-> <<"m","a","n","a","g","e","m","e","n","t">>, score |-> 60],
       [keyword |-> <<"l","e","a","d","e","r","s","h","i","p">>, score |-> 60],
       [keyword |-> <<"d","e","a","n">>, score |-> 60],
       [keyword |-> <<"h","e","a","d">>, score |-> 60],
       [keyword |-> <<"d","i","r","e","c","t","o","r">>, score |-> 60],
       [keyword |-> <<"i","n","s","t","i","t","u","t","e">>, score |-> 60],
       [keyword |-> <<"o","f","f","i","c","e">>, score |-> 40],
       [keyword |-> <<"o","f","f","i","c","e","s">>, score |-> 40],
       [keyword |-> <<"s","u","p","p","o","r","t">>, score |-> 40],
       [keyword |-> <<"s","e","r","v","i","c","e">>, score |-> 40],
       [keyword |-> <<"h","e","l","p">>, score |-> 40],
       [keyword |-> <<"e","n","q","u","i","r","y">>, score |-> 40],
       [keyword |-> <<"e","n","q","u","i","r","i","e","s">>, score |-> 40],
       [keyword |-> <<"i","n","q","u","i","r","y">>, score |-> 40],
       [keyword |-> <<"a","d","v","i","s","o","r">>, score |-> 40],
       [keyword |-> <<"c","o","u","n","s","e","l","o","r">>, score |-> 40],
       [keyword |-> <<"c","o","u","n","s","e","l","l","o","r">>, score |-> 40],
       [keyword |-> <<"p","r","o","f","i","l","e">>, score |-> 20],
       [keyword |-> <<"b","i","o">>, score |-> 20],
       [keyword |-> <<"b","i","o","g","r","a","p","h","y">>, score |-> 20],
       [keyword |-> <<"m","e","m","b","e","r">>, score |-> 20],
       [keyword |-> <<"r","e","s","e","a","r","c","h">>, score |-> 20],
       [keyword |-> <<"a","c","a","d","e","m","i","c">>, score |-> 20] >>

Max(S) == CHOOSE x \in S : \A y \in S : y <= x

Min(S) == CHOOSE x \in S : \A y \in S : x <= y

\* the sum of value * (number of matched keywords with that score)
RECURSIVE sum_matched(_, _)
sum_matched(matched, values) ==
    IF values = {} THEN 0
    ELSE LET v == Max(values)
         IN  v * Cardinality({i \in matched : keyword_scores[i].score = v})
             + sum_matched(matched, values \ {v})

\* "for keyword, keyword_score in keyword_scores.items()": the sum of the
\* scores of the keywords that occur in the lower-cased URL
url_keyword_score(url) ==
    LET url_lower == str_lower(url)
        matched == {i \in 1..Len(keyword_scores) :
                       str_contains(url_lower, keyword_scores[i].keyword)}
    IN  sum_matched(matched, {keyword_scores[i].score : i \in matched})

\* a sort that puts the lowest score first
sort_by_score_asc(items) ==
    LET RECURSIVE from(_)
        from(scores) ==
            IF scores = {} THEN <<>>
            ELSE SelectSeq(items, LAMBDA item : item.score = Min(scores))
                 \o from(scores \ {Min(scores)})
    IN  from({items[i].score : i \in 1..Len(items)})

\* list.sort(key=lambda x: x['score'], reverse=True): stable, highest first
sort_by_score_desc(items) ==
    LET RECURSIVE from(_)
        from(scores) ==
            IF scores = {} THEN <<>>
            ELSE SelectSeq(items, LAMBDA item : item.score = Max(scores))
                 \o from(scores \ {Max(scores)})
    IN  from({items[i].score : i \in 1..Len(items)})

high_priority(items) == SelectSeq(items, LAMBDA item : item.score >= 60)

medium_priority(items) == SelectSeq(items, LAMBDA item : 20 <= item.score /\ item.score < 60)

low_priority(items) == SelectSeq(items, LAMBDA item : 0 < item.score /\ item.score < 20)

no_priority(items) == SelectSeq(items, LAMBDA item : item.score = 0)

item_urls(items) == [i \in 1..Len(items) |-> items[i].url]

\* "if len(urls) > 50", "range(0, len(urls), 50)", "urls[i:i+50]"
url_batch_size == 50

\* "[item for item in url_scores]": a selection that leaves nothing out
every_item(items) == items

\* the lists analyze_urls_for_contacts sends, one request each: the whole list
\* when it has at most 50 URLs, else its slices of 50 in order
RECURSIVE url_batches(_)
url_batches(urls) ==
    IF urls = <<>> THEN <<>>
    ELSE IF Len(urls) <= url_batch_size THEN <<urls>>
    ELSE <<SubSeq(urls, 1, url_batch_size)>>
         \o url_batches(SubSeq(urls, url_batch_size + 1, Len(urls)))

\* "uncertain URLs (medium + low + no priority)"
uncertain_items(items) ==
    medium_priority(items) \o low_priority(items) \o no_priority(items)

\* ------------------------------------------------------------------------
\* AIContactExtractor.analyze_urls_for_contacts and the re-scoring loop
\*
\* An entry of the model's answer is [has_url, url, has_likelihood, numeric,
\* likelihood]; likelihood is in thousandths, so 0.95 is 950.
\* ------------------------------------------------------------------------

Entry(url, likelihood) ==
    [has_url |-> TRUE, url |-> url, has_likelihood |-> TRUE, numeric |-> TRUE,
     likelihood |-> likelihood]

UnaskedUrl == HTTPS \o BaseDomain \o <<"/","e","l","s","e","w","h","e","r","e">>

LikelihoodCycle == <<295, 0, 1000, -500>>

LlmStyles ==
    { "fails", "all_high", "mixed", "first_only", "unasked", "bad_likelihood",
      "no_url_key", "duplicate", "no_likelihood" }

\* what _call_openrouter_for_urls returns for one batch, by the way the model
\* behaves; "fails" is every attempt raising or an unparsable answer
llm_reply(style, urls) ==
    CASE style = "fails" -> <<>>
      [] style = "all_high" -> [i \in 1..Len(urls) |-> Entry(urls[i], 950)]
      [] style = "mixed" ->
            [i \in 1..Len(urls) |-> Entry(urls[i], LikelihoodCycle[((i - 1) % 4) + 1])]
      [] style = "first_only" -> <<Entry(urls[1], 800)>>
      [] style = "unasked" -> <<Entry(UnaskedUrl, 900), Entry(urls[1], 100)>>
      [] style = "bad_likelihood" ->
            <<Entry(urls[1], 900),
              [Entry(urls[Len(urls)], 0) EXCEPT !.numeric = FALSE]>>
      [] style = "no_url_key" ->
            <<Entry(urls[1], 900), [Entry(<<>>, 900) EXCEPT !.has_url = FALSE]>>
      [] style = "duplicate" -> <<Entry(urls[1], 100), Entry(urls[1], 900)>>
      [] style = "no_likelihood" ->
            <<[Entry(urls[1], 0) EXCEPT !.has_likelihood = FALSE]>>

\* batches of 50, their results concatenated
RECURSIVE analyze_urls_for_contacts(_, _, _)
analyze_urls_for_contacts(enabled, urls, style) ==
    IF ~enabled \/ urls = <<>> THEN <<>>
    ELSE IF Len(urls) > 50
    THEN analyze_urls_for_contacts(enabled, SubSeq(urls, 1, 50), style)
         \o analyze_urls_for_contacts(enabled, SubSeq(urls, 51, Len(urls)), style)
    ELSE llm_reply(style, urls)

\* ai_scores_map = {r['url']: r for r in ai_results}: the last entry wins
ai_scores_map(ai_results, url) ==
    ai_results[Max({i \in 1..Len(ai_results) : ai_results[i].url = url})]

\* int(x / d) for integers: truncation toward zero
int_trunc_div(x, d) == IF x >= 0 THEN x \div d ELSE -((-x) \div d)

\* int(ai_likelihood * 100), the likelihood given in thousandths
ai_boost(likelihood) == int_trunc_div(likelihood, 10)

\* a re-scoring that replaces the keyword score
replaced_score(old_score, boost) == boost

\* max(old_score, ai_boost)
boosted_score(old_score, boost) == IF boost > old_score THEN boost ELSE old_score

\* "for item in uncertain_urls": an item whose URL is in ai_scores_map gets
\* the boosted score; a likelihood that int() cannot convert raises, which
\* leaves that item and the ones after it as they are
rescore_loop(uncertain_urls, ai_results) ==
    LET in_map(item) == \E i \in 1..Len(ai_results) : ai_results[i].url = item.url
        ai_likelihood(item) ==
            IF ai_scores_map(ai_results, item.url).has_likelihood
            THEN ai_scores_map(ai_results, item.url).likelihood
            ELSE 0
        raises(item) ==
            /\ in_map(item)
            /\ ai_scores_map(ai_results, item.url).has_likelihood
            /\ ~ai_scores_map(ai_results, item.url).numeric
        raising == {i \in 1..Len(uncertain_urls) : raises(uncertain_urls[i])}
        stop == IF raising = {} THEN Len(uncertain_urls) + 1 ELSE Min(raising)
    IN  [items  |-> [i \in 1..Len(uncertain_urls) |->
                        IF i < stop /\ in_map(uncertain_urls[i])
                        THEN [uncertain_urls[i] EXCEPT
                                !.score = boosted_score(uncertain_urls[i].score,
                                              ai_boost(ai_likelihood(uncertain_urls[i])))]
                        ELSE uncertain_urls[i]],
         raised |-> raising # {}]

\* ------------------------------------------------------------------------
\* oxylabs_integration.py: discover_urls_via_sitemap
\* ------------------------------------------------------------------------

sitemap_locations ==
    << <<"/","s","i","t","e","m","a","p",".","x","m","l">>,
       <<"/","s","i","t","e","m","a","p","_","i","n","d","e","x",".","x","m","l">>,
       <<"/","s","i","t","e","m","a","p","s","/","s","i","t","e","m","a","p",".","x","m","l">>,
       <<"/","s","i","t","e","m","a","p","/","s","i","t","e","m","a","p",".","x","m","l">> >>

\* what the request for one sitemap path comes back with: the post raises, the
\* status is not 200, "results" is empty, the content does not start like XML,
\* or it is XML with the texts of its <loc> tags and of its <td> cells
SitemapAnswer(kind, locs, cells) == [kind |-> kind, locs |-> locs, cells |-> cells]

\* "url = loc.get_text().strip(); if url: sitemap_urls.append(url)"
RECURSIVE loc_entries(_)
loc_entries(locs) ==
    IF locs = <<>> THEN <<>>
    ELSE (IF str_strip(Head(locs)) # <<>> THEN <<str_strip(Head(locs))>> ELSE <<>>)
         \o loc_entries(Tail(locs))

\* one <td>: absolute URLs as they are, paths put on the base domain
cell_entry(text, base_domain) ==
    IF text # <<>> /\ (str_contains(text, <<"h","t","t","p">>) \/ str_startswith(text, <<"/">>))
    THEN IF str_startswith(text, <<"h","t","t","p">>) THEN <<text>>
         ELSE IF str_startswith(text, <<"/">>) THEN <<HTTPS \o base_domain \o text>>
         ELSE <<>>
    ELSE <<>>

RECURSIVE cell_entries(_, _)
cell_entries(cells, base_domain) ==
    IF cells = <<>> THEN <<>>
    ELSE cell_entry(str_strip(Head(cells)), base_domain)
         \o cell_entries(Tail(cells), base_domain)

\* a loop that goes on to the next path whatever it has found
path_never_returns(urls) == FALSE

\* "if sitemap_urls: ... return sitemap_urls"
path_returns(urls) == urls # <<>>

\* the body of the loop for one path, from the list so far: the list after it
\* and whether the function returns it
with_cells(urls, answer, base_domain) ==
    [urls |-> urls \o cell_entries(answer.cells, base_domain),
     returns |-> path_returns(urls \o cell_entries(answer.cells, base_domain))]

with_locs(urls, answer, base_domain) ==
    IF path_returns(urls) THEN [urls |-> urls, returns |-> TRUE]
    ELSE IF answer.cells # <<>> THEN with_cells(urls, answer, base_domain)
    ELSE [urls |-> urls, returns |-> FALSE]

sitemap_path_step(urls, answer, base_domain) ==
    IF answer.kind = "xml" THEN with_locs(urls \o loc_entries(answer.locs), answer, base_domain)
    ELSE [urls |-> urls, returns |-> FALSE]

\* ------------------------------------------------------------------------
\* ai_extractor.py: one call of the language model and the retry loop
\* ------------------------------------------------------------------------

\* an answer that fills nothing
NoAiResult == [name |-> None, designation |-> None, phone |-> None, department |-> None]

\* extract_contact_info(..., max_retries: int = 2)
default_max_retries == 2

\* what one requests.post of _call_openrouter can come back with
LlmResponses == {"timeout", "non_200", "bad_body", "bad_json", "not_object", "answer"}

rejected_ai_values == { <<"n","/","a">>, <<"n","u","l","l">>, <<"n","o","n","e">> }

bad_ai_names ==
    { <<"c","o","n","t","a","c","t">>, <<"e","m","a","i","l">>,
      <<"c","l","i","c","k"," ","h","e","r","e">>, <<"n","/","a">>,
      <<"n","u","l","l">>, <<"n","o","n","e">> }

clean_ai_name(v) ==
    IF truthy(v) /\ isinstance_str(v)
    THEN IF /\ str_strip(v) # <<>>
            /\ Len(str_strip(v)) > 2
            /\ ~str_contains(str_lower(str_strip(v)), <<"@">>)
            /\ ~\E bad \in bad_ai_names : str_contains(str_lower(str_strip(v)), bad)
         THEN str_strip(v) ELSE None
    ELSE None

clean_ai_text(v, min_len) ==
    IF truthy(v) /\ isinstance_str(v)
    THEN IF /\ str_strip(v) # <<>>
            /\ Len(str_strip(v)) >= min_len
            /\ str_lower(str_strip(v)) \notin rejected_ai_values
         THEN str_strip(v) ELSE None
    ELSE None

\* _clean_extracted_data: "Cleaned data with None for invalid fields"
clean_extracted_data(data) ==
    [name |-> clean_ai_name(data.name),
     designation |-> clean_ai_text(data.designation, 3),
     phone |-> clean_ai_text(data.phone, 7),
     department |-> clean_ai_text(data.department, 3)]

\* what a call gives its caller: an exception, or a value; empty is {} or []
LlmRaised == [raised |-> TRUE, empty |-> TRUE, data |-> NoAiResult, entries |-> <<>>]

LlmEmpty == [raised |-> FALSE, empty |-> TRUE, data |-> NoAiResult, entries |-> <<>>]

\* _call_openrouter: the post or raise_for a status other than 200 raises, so do
\* response.json() on a body that is no JSON and .get on content that is no
\* object; content that json.loads rejects is caught inside and gives {}
call_openrouter(response, answer) ==
    IF response \in {"timeout", "non_200", "bad_body", "not_object"} THEN LlmRaised
    ELSE IF response = "bad_json" THEN LlmEmpty
    ELSE [raised |-> FALSE, empty |-> FALSE, data |-> clean_extracted_data(answer),
          entries |-> <<>>]

\* _call_openrouter_for_urls: content that json.loads rejects and JSON of an
\* unexpected structure both give []
call_openrouter_for_urls(response, entries) ==
    IF response \in {"timeout", "non_200", "bad_body"} THEN LlmRaised
    ELSE IF response \in {"bad_json", "not_object"} THEN LlmEmpty
    ELSE [raised |-> FALSE, empty |-> entries = <<>>, data |-> NoAiResult,
          entries |-> entries]

call_model(call, response) ==
    IF call.kind = "contact" THEN call_openrouter(response, call.answer)
    ELSE call_openrouter_for_urls(response, call.entries)

\* a loop whose last handler lets the exception out
after_attempt_reraising(result, attempt, max_retries) ==
    IF ~result.raised THEN [pc |-> "returned", result |-> result]
    ELSE IF attempt < max_retries THEN [pc |-> "calling", result |-> LlmEmpty]
    ELSE [pc |-> "returned", result |-> LlmRaised]

\* one iteration of "for attempt in range(max_retries + 1)": return the result,
\* or on an exception continue while attempt < max_retries and return {} after
after_attempt(result, attempt, max_retries) ==
    IF ~result.raised THEN [pc |-> "returned", result |-> result]
    ELSE IF attempt < max_retries THEN [pc |-> "calling", result |-> LlmEmpty]
    ELSE [pc |-> "returned", result |-> LlmEmpty]

\* extract_contact_from_context after the call: "if ai_result:" fills the fields
contact_after_ai(h, result) ==
    IF result.empty THEN h ELSE fill_from_ai(h, result.data)

\* ------------------------------------------------------------------------
\* app.py: start_scraping, run_scraper_thread, stop_scraping
\* ------------------------------------------------------------------------

HTTP == <<"h","t","t","p">>

\* "url = data.get('url', '').strip()", "if not url.startswith('http')"
request_url(data) ==
    IF ~str_startswith(str_strip(data.url), HTTP)
    THEN HTTPS \o str_strip(data.url)
    ELSE str_strip(data.url)

\* the error start_scraping answers for a request body, "ok" when it has none
validate_start(data) ==
    IF ~truthy(str_strip(data.url)) THEN "URL is required"
    ELSE IF data.max_pages < 1 \/ data.max_pages > 10000
    THEN "Max pages must be between 1 and 10000"
    ELSE IF data.workers < 1 \/ data.workers > 100
    THEN "Workers must be between 1 and 100"
    ELSE IF data.deep_crawl_requests < 1 \/ data.deep_crawl_requests > 200
    THEN "Deep crawl requests must be between 1 and 200"
    ELSE "ok"

\* run_scraper_thread up to the call of discover_urls
begin_job(state) ==
    [state EXCEPT !.running = TRUE, !.progress = 10, !.status = "Discovering URLs...",
                  !.urls_discovered = 0, !.contacts_found = 0, !.error = None]

\* the two tracker.update calls after discover_urls has returned
report_discovered(state, urls) ==
    [state EXCEPT !.status = "Starting parallel scraping...",
                  !.urls_discovered = Len(urls), !.progress = 25]

\* "Complete": contacts_found and the last tracker.update
report_complete(state, urls, unique) ==
    [state EXCEPT !.contacts_found = Len(unique), !.status = "Complete",
                  !.urls_discovered = Len(urls), !.progress = 100]

\* "except Exception as e"
report_error(state) ==
    [state EXCEPT !.error = "exception", !.status = "Error", !.progress = 0]

\* "finally"
end_job(state) == [state EXCEPT !.running = FALSE]

\* stop_scraping, when a job is running
request_stop(state) == [state EXCEPT !.status = "Stopping..."]

\* ------------------------------------------------------------------------
\* OxylabsScraper.scrape_single_url, scrape_multiple_urls
\* ------------------------------------------------------------------------

\* a submission list that leaves out the last URL
submitted_without_last(urls) == SubSeq(urls, 1, Len(urls) - 1)

\* "executor.submit(self.scrape_single_url, url, i+1, total_urls) for i, url
\* in enumerate(urls)": the URLs submitted, in order
submitted_urls(urls) == [i \in 1..Len(urls) |-> urls[i]]

\* scrape_single_url for what the request and the extraction give: the
\* future ends with a list of contacts or with an exception
scrape_single_url(result) ==
    IF result.kind = "page" THEN [raised |-> FALSE, contacts |-> result.contacts]
    ELSE IF result.kind = "raises" THEN [raised |-> TRUE, contacts |-> <<>>]
    ELSE [raised |-> FALSE, contacts |-> <<>>]

\* a collecting step that counts only the futures that returned
collect_future_uncounted(st, future) ==
    IF future.raised THEN st
    ELSE [all_contacts |-> st.all_contacts \o future.contacts,
          completed    |-> st.completed + 1]

\* body of "for future in as_completed(future_to_url)": st = [all_contacts,
\* completed]
collect_future(st, future) ==
    IF future.raised
    THEN [all_contacts |-> st.all_contacts, completed |-> st.completed + 1]
    ELSE [all_contacts |-> st.all_contacts \o future.contacts,
          completed    |-> st.completed + 1]

\* "Phase 2: Clean data and create CSV": the unique contacts, and whether
\* unique_contacts[0] raises IndexError
clean_phase(contacts) ==
    IF contacts = <<>> THEN [unique_contacts |-> <<>>, raised |-> FALSE]
    ELSE [unique_contacts |-> clean_and_deduplicate_contacts(contacts),
          raised          |-> clean_and_deduplicate_contacts(contacts) = <<>>]

\* ------------------------------------------------------------------------
\* State
\* ------------------------------------------------------------------------

VARIABLES
    \* clean_contact_data applied to one record
    raw_contact,        \* the record as first given
    contact,            \* the record after clean_passes applications
    clean_passes,
    \* de-duplication
    dedup_path,         \* "oxylabs": clean_and_deduplicate_contacts; "scrapy": item pipeline
    all_contacts,       \* raw contacts in arrival order
    unique_contacts,    \* result of clean_and_deduplicate_contacts
    dedup_done,
    emails_seen,        \* DuplicateFilterPipeline.emails_seen
    pipeline_items,     \* items the pipeline passed on
    \* contact extraction from one page
    scraper,            \* "oxylabs": OxylabsScraper; "spider": ContactSpider
    page,               \* the parsed page
    use_ai,             \* OxylabsScraper.use_ai (with an ai_extractor)
    extract_pc,         \* the strategy about to run, "done" after the return
    contacts,           \* contacts appended / yielded so far
    ai_extractions_count,
    ai_success_count,
    \* discover_urls: parameters
    max_pages,
    max_discovery,
    enable_deep_crawl,
    deep_crawl_requests,
    enable_ai_url_filter,
    \* discover_urls: what the outside answers
    sitemap_result,     \* outcome of discover_urls_via_sitemap
    ai_enabled,         \* ai_extractor.enabled
    llm_style,          \* how the language model answers, see llm_reply
    \* discover_urls: locals
    discover_pc,
    discovered_urls,
    urls_to_process,
    processed_urls,
    max_discovery_requests,
    discovery_count,
    url_scores,         \* the scored items, in keyword-score order
    ai_results,
    prioritized_urls,
    final_urls,
    \* discover_urls: history
    discovery_log,      \* the URLs in the order they entered discovered_urls
    fetch_attempts,     \* requests.post calls made by the crawl loop
    fetch_failed,       \* some crawl fetch gave no page
    skipped_entries,    \* queue entries dropped because already processed
    keyword_prioritized_urls,   \* prioritized_urls before the AI phase
    ai_outcome,         \* how the AI phase ended
    fetched_after_failure,      \* a crawl fetch was made after one had failed
    \* app.py: the state the web interface shares
    scraping_state,     \* the fields of scraping_state the handlers and jobs use
    \* app.py: /api/start requests and the job threads they start
    start_request,      \* start_request[h]: the JSON body of request h
    start_response,     \* start_response[h]: "none" until the handler has answered
    thread_pc,          \* thread_pc[h]: where the thread started by h stands
    thread_urls,        \* thread_urls[h]: its local discovered_urls
    thread_submitted,   \* thread_submitted[h]: the URLs it gave to executor.submit
    thread_results,     \* thread_results[h]: what scrape_multiple_urls returned to it
    \* one job in detail: run_scraper_thread around scrape_multiple_urls
    job_pc,
    job_urls,           \* the list run_scraper_thread passes to scrape_multiple_urls
    job_request,        \* the arguments of run_scraper_thread
    page_results,       \* page_results[url]: what scraping url gives, fixed for the job
    future_state,       \* future_state[i]: state of the future of urls[i]
    collected,          \* indices of the futures as_completed has yielded, in order
    completed,
    job_result,         \* what scrape_multiple_urls returned
    stop_response,      \* answer of the /api/stop request, "none" before it
    started_at_stop,    \* the units whose fetch had started when stop was accepted
    started_after_stop, \* the units whose fetch started after stop was accepted
    \* ai_extractor.py: one call of extract_contact_info / analyze_urls_for_contacts
    llm_call,           \* the arguments and what the model would answer
    llm_pc,
    llm_attempt,        \* the loop variable attempt
    llm_responses,      \* what each requests.post of this call came back with
    llm_result,         \* what the call gave its caller
    llm_contact,        \* the contact extract_contact_from_context returns
    \* the fan-out of scrape_multiple_urls with the AI step of each unit
    pool_workers,       \* max_workers of the ThreadPoolExecutor
    unit_work,          \* unit_work[u]: what the page of unit u asks of the AI
    unit_pc,            \* unit_pc[u]: where the worker running unit u stands
    unit_reg,           \* unit_reg[u]: the value its "+=" has read and not yet stored
    total_requests,     \* ai_extractor.total_requests, as the token and cost totals
    rmw_units,          \* rmw_units[v]: the units that have done "v += ..."
    \* discover_urls_via_sitemap
    sitemap_answers,    \* sitemap_answers[i]: what the request for path i comes back with
    sitemap_pc,
    sitemap_path,       \* index of the path the loop is at
    found_urls,         \* the local list sitemap_urls
    sitemap_fetched,    \* the paths requested so far, in order
    sitemap_return,     \* the list returned
    \* the AI phase of discover_urls, one request per step
    pending_batches,    \* the batches analyze_urls_for_contacts has still to send
    sent_batches,       \* the URL lists of the requests made, in order
    batch_failed        \* batch_failed[i]: request i gave no result

cleanVars == <<raw_contact, contact, clean_passes>>

dedupVars == <<dedup_path, all_contacts, unique_contacts, dedup_done,
               emails_seen, pipeline_items>>

extractVars == <<scraper, page, use_ai, extract_pc, contacts,
                 ai_extractions_count, ai_success_count>>

discoverParams == <<max_pages, max_discovery, enable_deep_crawl, deep_crawl_requests,
                    enable_ai_url_filter, sitemap_result, ai_enabled, llm_style>>

crawlVars == <<discovered_urls, urls_to_process, processed_urls, max_discovery_requests,
               discovery_count, discovery_log, fetch_attempts, fetch_failed,
               fetched_after_failure, skipped_entries>>

rankVars == <<url_scores, ai_results, prioritized_urls, final_urls,
              keyword_prioritized_urls, ai_outcome>>

discoverVars == <<discoverParams, discover_pc, crawlVars, rankVars>>

appVars == <<start_request, start_response, thread_pc, thread_urls, thread_submitted,
             thread_results>>

poolVars == <<future_state, collected, completed>>

stopVars == <<stop_response, started_at_stop, started_after_stop>>

jobVars == <<job_pc, job_urls, job_request, page_results, poolVars, job_result, stopVars>>

llmVars == <<llm_call, llm_pc, llm_attempt, llm_responses, llm_result, llm_contact>>

fanVars == <<pool_workers, unit_work, unit_pc, unit_reg, total_requests, rmw_units>>

sitemapVars == <<sitemap_answers, sitemap_pc, sitemap_path, found_urls, sitemap_fetched,
                 sitemap_return>>

batchVars == <<pending_batches, sent_batches, batch_failed>>

\* what the actions of a job leave alone
dedupRest == <<dedup_path, dedup_done, emails_seen, pipeline_items>>

otherThanJob == <<cleanVars, dedupRest, extractVars, discoverVars, appVars, llmVars,
                  fanVars, sitemapVars, batchVars>>

otherThanApp == <<cleanVars, dedupVars, extractVars, discoverVars, jobVars, llmVars,
                  fanVars, sitemapVars, batchVars>>

serviceVars == <<scraping_state, appVars, jobVars, llmVars, fanVars, sitemapVars,
                 batchVars>>

vars == <<cleanVars, dedupVars, extractVars, discoverVars, serviceVars>>

\* ------------------------------------------------------------------------
\* Bounds
\* ------------------------------------------------------------------------

MaxCleanPasses == 2

MaxContacts == 4

\* elements matched by one selector
MaxElements == 2

\* mailto: links on a page
MaxLinks == 2

\* URLs listed by the large sitemap
BulkSitemapSize == 85

\* rotations of the discovery order tried as iteration orders of the set
MaxOrderShifts == 2

\* largest max_pages of a modelled job
MaxJobPages == 3

\* largest number of pool workers of a modelled job
MaxWorkers == 2

\* number of requests to /api/start
MaxRequests == 2

\* ------------------------------------------------------------------------
\* Input values
\* ------------------------------------------------------------------------

EmailInputs ==
    { None, <<>>, NonStr,
      <<"a","b">>,
      <<"a","@","b">>,
      <<" ","a","@","b"," ">>,
      <<"a"," ","@","\t","b">>,
      <<"A","@","b">>,
      <<"a","@","b","@","c">>,
      <<" ","a","@","b","@","c">>,
      <<"@","b">>,
      <<"a","@">>,
      <<" ","@"," ">>,
      <<"x"," ","a","@","b">> }

PhoneInputs ==
    { None, <<>>, NonStr,
      <<"1","2","3","4","5","6","7">>,
      <<"1","2","3","-","4","5","6","7">>,
      <<" ","1","2","3","-","4","5","6","7","\n">>,
      <<"1","2","-","3","4","5">>,
      <<"1","2","3","-","5","6"," ">>,
      <<" ","1","2","3","4","5","6","7"," ">>,
      <<"1","2","3"," ","4","5","6","7">> }

NameInputs ==
    { None, <<>>, NonStr,
      <<"A","l">>,
      <<"A","n","n">>,
      <<" ","A","l"," ">>,
      <<" "," ","A","n","n"," ">> }

DesignationInputs == { None, <<" ","D","e","a","n">> }

UniversityInputs == { None, <<"U","M">> }

DepartmentInputs == { <<" "," "," ">>, <<"M","a","t","h"," ">> }

SourceUrl == <<"u">>

RawContactInputs ==
    [email : EmailInputs, phone : PhoneInputs, name : NameInputs,
     designation : DesignationInputs, university : UniversityInputs,
     department : DepartmentInputs,
     source_url : {SourceUrl}, scraped_date : {ScrapedDate}]

Contact(email, phone, name) ==
    [email |-> email, phone |-> phone, name |-> name,
     designation |-> None, university |-> None, department |-> None,
     source_url |-> SourceUrl, scraped_date |-> ScrapedDate]

Phone1 == <<"1","2","3","-","4","5","6","7">>

Ann == <<"A","n","n">>

Bob == <<"B","o","b">>

\* raw contacts fed to de-duplication: the same address twice with different
\* other fields, an address differing only in case, records without an address
DedupInputs ==
    { Contact(<<"a","@","b">>, None, Ann),
      Contact(<<" ","a","@","b">>, Phone1, Bob),
      Contact(<<"c","@","d">>, None, Ann),
      Contact(<<"A","@","b">>, None, Bob),
      Contact(None, Phone1, Ann),
      Contact(None, Phone1, Bob),
      Contact(<<"a","b">>, Phone1, Ann),
      Contact(<<>>, Phone1, Bob) }

\* ------------------------------------------------------------------------
\* Pages
\*
\* An element is described by what the extraction code reads from it:
\*   text_content       get_text() / ' '.join(css('*::text'))
\*   text_emails        email_pattern.findall(text_content)
\*   mailto_hrefs       href of the <a href="mailto:..."> descendants
\*   phone_groups       ''.join(m) for m in phone_pattern.findall(text_content):
\*                      the pattern has one group, the optional country
\*                      prefix, so a match without a prefix gives ''
\*   tel_hrefs          href of the <a href="tel:..."> descendants
\*   name_texts, ...    text of the first match of each selector that matches
\* ------------------------------------------------------------------------

\* a card with an address and a prefixed number in its text
ElFull ==
    [text_content      |-> <<"A","n","n"," ","L","e","e"," ","a","@","b",".","c","c"," ","+","1"," ","5","5","5"," ","1","2","3"," ","4","5","6","7">>,
     text_emails       |-> <<<<"a","@","b",".","c","c">>>>,
     mailto_hrefs      |-> <<>>,
     phone_groups      |-> <<<<"+","1"," ">>>>,
     tel_hrefs         |-> <<>>,
     name_texts        |-> <<<<"A","n","n"," ","L","e","e">>>>,
     designation_texts |-> <<<<" ","D","e","a","n"," ">>>>,
     university_texts  |-> <<<<"U","M">>>>,
     department_texts  |-> <<<<"M","a","t","h">>>>]

\* a number without country prefix: the group is empty; no address
ElPhoneNoPrefix ==
    [text_content      |-> <<"C","a","l","l"," ","5","5","5","-","1","2","3","-","4","5","6","7">>,
     text_emails       |-> <<>>,
     mailto_hrefs      |-> <<>>,
     phone_groups      |-> <<<<>>>>,
     tel_hrefs         |-> <<>>,
     name_texts        |-> <<<<"C","a","l","l">>>>,
     designation_texts |-> <<>>,
     university_texts  |-> <<>>,
     department_texts  |-> <<>>]

\* the same number, also linked with tel:
ElPhoneTel ==
    [text_content      |-> <<"5","5","5","-","1","2","3","-","4","5","6","7">>,
     text_emails       |-> <<>>,
     mailto_hrefs      |-> <<>>,
     phone_groups      |-> <<<<>>>>,
     tel_hrefs         |-> <<<<"t","e","l",":","5","5","5","-","1","2","3","-","4","5","6","7">>>>,
     name_texts        |-> <<>>,
     designation_texts |-> <<>>,
     university_texts  |-> <<>>,
     department_texts  |-> <<>>]

\* the address only in a mailto: link
ElMailtoOnly ==
    [text_content      |-> <<"E","m","a","i","l"," ","u","s">>,
     text_emails       |-> <<>>,
     mailto_hrefs      |-> <<<<"m","a","i","l","t","o",":","c","@","d",".","e","e"," ">>>>,
     phone_groups      |-> <<>>,
     tel_hrefs         |-> <<>>,
     name_texts        |-> <<<<" "," ">>, <<"U","s">>>>,
     designation_texts |-> <<>>,
     university_texts  |-> <<>>,
     department_texts  |-> <<>>]

\* mailto: and tel: links with nothing after the scheme
ElEmptyLinks ==
    [text_content      |-> <<>>,
     text_emails       |-> <<>>,
     mailto_hrefs      |-> <<<<"m","a","i","l","t","o",":"," ">>>>,
     phone_groups      |-> <<>>,
     tel_hrefs         |-> <<<<"t","e","l",":">>>>,
     name_texts        |-> <<>>,
     designation_texts |-> <<>>,
     university_texts  |-> <<>>,
     department_texts  |-> <<>>]

\* a navigation block: neither address nor number
ElNav ==
    [text_content      |-> <<"H","o","m","e"," ","A","b","o","u","t">>,
     text_emails       |-> <<>>,
     mailto_hrefs      |-> <<>>,
     phone_groups      |-> <<>>,
     tel_hrefs         |-> <<>>,
     name_texts        |-> <<<<"H","o","m","e">>>>,
     designation_texts |-> <<>>,
     university_texts  |-> <<>>,
     department_texts  |-> <<>>]

\* address in the text, no usable name element
ElNearName ==
    [text_content      |-> <<"D","r"," ","B","o"," ","L","i"," ","x","@","y",".","z","z">>,
     text_emails       |-> <<<<"x","@","y",".","z","z">>>>,
     mailto_hrefs      |-> <<>>,
     phone_groups      |-> <<>>,
     tel_hrefs         |-> <<>>,
     name_texts        |-> <<<<"B","o">>>>,
     designation_texts |-> <<>>,
     university_texts  |-> <<>>,
     department_texts  |-> <<>>]

Elements ==
    { ElFull, ElPhoneNoPrefix, ElPhoneTel, ElMailtoOnly, ElEmptyLinks, ElNav, ElNearName }

ElementLists(n) ==
    UNION { [1..k -> Elements] : k \in 1..n }

\* a parent of a mailto: link
Parent(tel_hrefs, headings, tags) ==
    [tel_hrefs |-> tel_hrefs, headings |-> headings, tags |-> tags]

Tag(classes, text) == [classes |-> classes, text |-> text]

MailtoLink(href, ancestors, ai_result) ==
    [href |-> href, ancestors |-> ancestors, ai_result |-> ai_result]

BareParent == Parent(<<>>, <<>>, <<>>)

MailtoLinks ==
    { \* firstname.lastname address, nothing around it
      MailtoLink(<<"m","a","i","l","t","o",":","j","o",".","d","o","@","u",".","e","d">>, <<BareParent>>, NoAiResult),
      \* a heading with a name two levels up, a tel: link one level up
      MailtoLink(<<"m","a","i","l","t","o",":","x","@","y",".","z","z">>,
                 <<Parent(<<<<"t","e","l",":"," ","5","5","5","-","1","2","3","4">>>>, <<>>, <<>>),
                   Parent(<<<<"t","e","l",":"," ","5","5","5","-","1","2","3","4">>>>, <<None, <<"A","m","y"," ","P","o","e">>>>, <<>>)>>,
                 NoAiResult),
      \* upper-case scheme: found by the case-insensitive search, not removed
      MailtoLink(<<"M","A","I","L","T","O",":","q","@","r",".","s","s">>, <<BareParent>>, NoAiResult),
      \* nothing after the scheme
      MailtoLink(<<"m","a","i","l","t","o",":">>, <<BareParent>>, NoAiResult),
      \* no '@'
      MailtoLink(<<"m","a","i","l","t","o",":","n","o","b","o","d","y">>, <<BareParent>>, NoAiResult),
      \* a rejected name tag, a job title tag, an AI answer with name and phone
      MailtoLink(<<"m","a","i","l","t","o",":","i","@","k",".","l","l">>,
                 <<Parent(<<>>, <<>>,
                          <<Tag(<<"s","t","a","f","f","-","n","a","m","e">>, <<"C","o","n","t","a","c","t"," ","U","s">>),
                            Tag(<<"j","o","b","-","t","i","t","l","e">>, <<"S","e","n","i","o","r"," ","L","e","c","t","u","r","e","r">>)>>)>>,
                 [name |-> <<"I","a","n"," ","K","a","y">>, designation |-> <<"D","e","a","n">>,
                  phone |-> <<"5","5","5","-","9","8","7","6">>, department |-> None]),
      \* firstname.lastname address; a name tag one level up and a heading with
      \* another name three levels up
      MailtoLink(<<"m","a","i","l","t","o",":","a","l",".","b","o","@","u",".","e","d">>,
                 <<Parent(<<>>, <<>>, <<Tag(<<"n","a","m","e">>, <<"C","y"," ","O","r","r">>)>>),
                   BareParent,
                   Parent(<<>>, <<None, <<"A","m","y"," ","P","o","e">>>>, <<>>)>>,
                 NoAiResult),
      \* firstname_lastname address; a heading and a name tag that are no
      \* names, a heading with a name four levels up, an AI answer with a name
      MailtoLink(<<"m","a","i","l","t","o",":","e","d","_","l","i","@","u",".","e","d">>,
                 <<Parent(<<>>, <<<<"C","o","n","t","a","c","t"," ","U","s">>>>,
                          <<Tag(<<"s","t","a","f","f","-","n","a","m","e">>, <<"C","o","n","t","a","c","t"," ","U","s">>)>>),
                   BareParent, BareParent,
                   Parent(<<>>, <<<<"A","m","y"," ","P","o","e">>>>, <<>>)>>,
                 [name |-> <<"I","a","n"," ","K","a","y">>, designation |-> None,
                  phone |-> None, department |-> None]) }

MailtoLinkLists(n) ==
    UNION { [1..k -> MailtoLinks] : k \in 0..n }

\* an occurrence of an address in a text node
Occurrence(tel_hrefs, headings, lines) ==
    [tel_hrefs |-> tel_hrefs, headings |-> headings, lines |-> lines]

JoDo == <<"j","o",".","d","o","@","u",".","e","d">>

Xy == <<"x","@","y",".","z","z">>

\* the text of the page: text_emails is email_pattern.findall(all_text),
\* text_nodes[e] the text nodes soup.find_all(text=...) returns for e
PageTexts ==
    { [text_emails |-> <<>>, text_nodes |-> <<>>],
      [text_emails |-> <<JoDo>>,
       text_nodes  |-> (JoDo :> <<Occurrence(<<>>, <<>>,
                                     <<<<"J","a","n","e"," ","R","o","e">>, <<"E","m","a","i","l",":"," ","j","o",".","d","o","@","u",".","e","d">>,
                                       <<"D","e","a","n"," ","o","f"," ","A","r","t","s">>>>)>>)],
      [text_emails |-> <<JoDo, Xy, JoDo>>,
       text_nodes  |-> (JoDo :> <<>>) @@
                       (Xy :> <<Occurrence(<<<<"t","e","l",":","5","5","5","-","0","0","0","0">>>>, <<<<"O","u","r"," ","S","t","a","f","f">>>>,
                                           <<<<"x","@","y",".","z","z">>>>)>>)],
      [text_emails |-> <<Xy>>,
       text_nodes  |-> (Xy :> <<>>)] }

NoText == [text_emails |-> <<>>, text_nodes |-> <<>>]

OxylabsPage(known_format, selections, mailto_links, text) ==
    [source_url   |-> SourceUrl,
     known_format |-> known_format,
     selections   |-> selections,
     mailto_links |-> mailto_links,
     text_emails  |-> text.text_emails,
     text_nodes   |-> text.text_nodes]

EmptyPage == OxylabsPage(TRUE, {}, <<>>, NoText)

Selection(selector, elements) == [selector |-> selector, elements |-> elements]

\* pages whose containers differ
OxylabsContainerPages ==
    { OxylabsPage(TRUE, {Selection(s, l)}, <<>>, NoText) :
        s \in {".contact-card", "[class*=employee]"}, l \in ElementLists(MaxElements) }
    \cup
    { OxylabsPage(TRUE, {Selection(".contact-info", <<e1>>), Selection(".profile", <<e2>>)},
                  <<>>, NoText) : e1, e2 \in Elements }

\* pages without a usable container, whose mailto: links differ
OxylabsMailtoPages ==
    { OxylabsPage(TRUE, s, l, t) :
        s \in { {}, {Selection(".profile", <<ElNav>>)} },
        l \in MailtoLinkLists(MaxLinks),
        t \in { NoText, [text_emails |-> <<Xy>>, text_nodes |-> (Xy :> <<>>)] } }

\* pages with neither, whose text differs
OxylabsTextPages ==
    { OxylabsPage(TRUE, {}, l, t) :
        l \in { <<>>, <<MailtoLink(<<"m","a","i","l","t","o",":","n","o","b","o","d","y">>, <<BareParent>>, NoAiResult)>> },
        t \in PageTexts }

\* "Unknown content format": a dict without 'html', 'content' or 'text'
OxylabsUnknownPages == { OxylabsPage(FALSE, {}, <<>>, NoText) }

OxylabsPages ==
    OxylabsContainerPages \cup OxylabsMailtoPages \cup OxylabsTextPages
    \cup OxylabsUnknownPages

StaffUrl == <<"h","t","t","p","s",":","/","/","u",".","e","d","u","/","S","t","a","f","f">>

NewsUrl == <<"h","t","t","p","s",":","/","/","u",".","e","d","u","/","n","e","w","s">>

\* a response: its containers, its table rows / list items, and the response
\* itself read as one element
SpiderPage(url, selections, table_rows, whole) ==
    [url |-> url, selections |-> selections, table_rows |-> table_rows, whole |-> whole]

SpiderPages ==
    { SpiderPage(NewsUrl, {Selection(s, l)}, <<ElFull>>, ElFull) :
        s \in {".contact", "[class*=member]"}, l \in ElementLists(MaxElements) }
    \cup
    { SpiderPage(NewsUrl, {}, l, ElFull) : l \in ElementLists(MaxElements) }
    \cup
    { SpiderPage(u, {}, <<>>, e) : u \in {StaffUrl, NewsUrl}, e \in Elements }

\* ------------------------------------------------------------------------
\* The site under discovery
\* ------------------------------------------------------------------------

DigitChars == <<"0","1","2","3","4","5","6","7","8","9">>

\* str(n) for n >= 0
RECURSIVE str_int(_)
str_int(n) ==
    IF n < 10 THEN <<DigitChars[n + 1]>>
    ELSE str_int(n \div 10) \o <<DigitChars[(n % 10) + 1]>>

\* outcome of discover_urls_via_sitemap: it raises, or returns a list
SitemapResult(raises, urls) == [raises |-> raises, urls |-> urls]

\* the start URL again, a profile page, another host, more pages of the site
MixedSitemap ==
    SitemapResult(FALSE,
        << StartUrl,
           HTTPS \o BaseDomain \o <<"/","b","i","o","/","a","n","n">>,
           HTTPS \o <<"w","w","w",".","u",".","e","d","u","/","s","t","a","f","f">>,
           HTTPS \o BaseDomain \o <<"/","n","e","w","s">>,
           HTTPS \o BaseDomain \o <<"/","o","f","f","i","c","e">>,
           HTTPS \o BaseDomain \o <<"/","x">> >>)

\* a sitemap that lists every page the patterns guess
PatternSitemap == SitemapResult(FALSE, discover_urls_by_patterns(BaseDomain, {}))

SmallSitemaps ==
    { SitemapResult(FALSE, <<>>), SitemapResult(TRUE, <<>>), MixedSitemap }

\* a long sitemap that also lists the start URL
BulkSitemap ==
    SitemapResult(FALSE,
        [i \in 1..BulkSitemapSize |->
            IF i = 2 THEN StartUrl ELSE HTTPS \o BaseDomain \o <<"/","p">> \o str_int(i)])

\* urlparse(urljoin(current_url, href)) of one <a href>
Link(scheme, netloc, path, query) ==
    [raises |-> FALSE, scheme |-> scheme, netloc |-> netloc, path |-> path,
     query |-> query, fragment |-> <<>>]

SiteLink(path, query) == Link(<<"h","t","t","p","s">>, BaseDomain, path, query)

\* a link of the site with a fragment
FragmentLink(path, fragment) == [SiteLink(path, <<>>) EXCEPT !.fragment = fragment]

\* an href urljoin rejects
BadLink == [Link(<<>>, <<>>, <<>>, <<>>) EXCEPT !.raises = TRUE]

\* the links of the pages that have any
Site ==
    (StartUrl :>
        << SiteLink(<<"/","n","e","w","s">>, <<>>),
           SiteLink(<<"/","s","t","a","f","f","/","a","n","n">>, <<>>),
           Link(<<"h","t","t","p","s">>, <<"w","w","w",".","u",".","e","d","u">>, <<"/","s","t","a","f","f">>, <<>>),
           SiteLink(<<"/","f","i","l","e","s","/","c","v",".","P","D","F">>, <<>>),
           SiteLink(<<"/","c","o","n","t","a","c","t">>, <<>>),
           Link(<<"m","a","i","l","t","o">>, <<>>, <<"d","e","a","n","@","u",".","e","d","u">>, <<>>),
           BadLink,
           SiteLink(<<"/","l","a","t","e">>, <<>>) >>)
    @@ ((HTTPS \o BaseDomain \o <<"/","a","b","o","u","t","/","f","a","c","u","l","t","y">>) :>
        << SiteLink(<<"/","P","e","o","p","l","e">>, <<"i","d","=","7">>),
           SiteLink(<<"/","n","e","w","s">>, <<>>),
           SiteLink(<<"/","d","r","-","l","e","e">>, <<>>) >>)
    @@ ((HTTPS \o BaseDomain \o <<"/","a","b","o","u","t","/","s","t","a","f","f">>) :>
        << FragmentLink(<<"/","c","o","n","t","a","c","t">>, <<"f","o","r","m">>),
           FragmentLink(<<"/","b","i","o","/","b","o">>, <<"c","v">>),
           Link(<<"h","t","t","p","s">>, <<"w","w","w",".","u",".","e","d","u">>, <<"/","t","e","a","m">>, <<>>),
           FragmentLink(<<"/","b","i","o","/","b","o">>, <<"t","o","p">>) >>)
    @@ ((HTTPS \o BaseDomain \o <<"/","c","o","n","t","a","c","t">>) :>
        << SiteLink(<<"/">>, <<>>),
           SiteLink(<<"/","h","e","l","p">>, <<"a","=","1">>) >>)

\* the links of a fetched page
page_links(url) == IF url \in DOMAIN Site THEN Site[url] ELSE <<>>

\* what one crawl fetch can give: a page, an exception, a status other than
\* 200, no "results", or a content that is not a string of over 100 characters
FetchOutcomes == {"ok", "exception", "error_status", "no_results", "no_content"}

Range(s) == {s[i] : i \in 1..Len(s)}

\* every URL a run can discover
KnownUrls ==
    {StartUrl}
    \cup Range(discover_urls_by_patterns(BaseDomain, {}))
    \cup Range(MixedSitemap.urls) \cup Range(BulkSitemap.urls)
    \cup UNION { {clean_url_of(Site[u][i]) : i \in 1..Len(Site[u])} : u \in DOMAIN Site }

\* url_keyword_score of the URLs a run can discover, computed once
keyword_score_of == [url \in KnownUrls |-> url_keyword_score(url)]

\* ------------------------------------------------------------------------
\* Calls of discover_urls
\* ------------------------------------------------------------------------

\* crawl without AI filtering
CrawlCalls ==
    [max_pages : {1, 2, 30}, max_discovery : {2000, 24},
     enable_deep_crawl : BOOLEAN, deep_crawl_requests : {0, 1, 3},
     enable_ai_url_filter : {FALSE}, sitemap_result : SmallSitemaps,
     ai_enabled : {FALSE}, llm_style : {"fails"}]

\* AI filtering after a short crawl or none
AiCalls ==
    [max_pages : {2, 30}, max_discovery : {2000},
     enable_deep_crawl : BOOLEAN, deep_crawl_requests : {1},
     enable_ai_url_filter : {TRUE}, sitemap_result : {SitemapResult(FALSE, <<>>), MixedSitemap},
     ai_enabled : BOOLEAN, llm_style : LlmStyles]

\* a long sitemap and a request count above the ceiling
BulkCalls ==
    [max_pages : {30}, max_discovery : {2000},
     enable_deep_crawl : BOOLEAN, deep_crawl_requests : {150},
     enable_ai_url_filter : BOOLEAN, sitemap_result : {BulkSitemap},
     ai_enabled : {TRUE}, llm_style : {"mixed"}]

\* a site whose sitemap already lists the pattern URLs
PatternCalls ==
    [max_pages : {30}, max_discovery : {2000},
     enable_deep_crawl : BOOLEAN, deep_crawl_requests : {1},
     enable_ai_url_filter : {FALSE}, sitemap_result : {PatternSitemap},
     ai_enabled : {FALSE}, llm_style : {"fails"}]

DiscoverCalls == CrawlCalls \cup AiCalls \cup BulkCalls \cup PatternCalls

\* the orders in which "for url in discovered_urls" can visit the set: the
\* order of a Python set of strings is not the insertion order; the discovery
\* order, its reverse and some rotations stand for the possible orders
set_iteration_orders(log) ==
    {log, [i \in 1..Len(log) |-> log[Len(log) + 1 - i]]}
    \cup {[i \in 1..Len(log) |-> log[((i - 1 + k) % Len(log)) + 1]] : k \in 1..MaxOrderShifts}

\* ------------------------------------------------------------------------
\* discover_urls without deep crawl and AI filtering, as run_scraper_thread
\* calls it with the defaults of /api/start
\* ------------------------------------------------------------------------

\* discovered_urls, its insertion order and the queue after the sitemap and
\* the pattern phases
seeded_urls(start_url, sitemap, pages) ==
    LET base_domain == url_netloc(start_url)
        st0 == [discovered_urls |-> {start_url},
                discovery_log   |-> <<start_url>>,
                urls_to_process |-> <<start_url>>]
        st1 == IF sitemap.raises THEN st0
               ELSE sitemap_loop(st0, sitemap.urls, base_domain, pages)
    IN  pattern_loop(st1, discover_urls_by_patterns(base_domain, st1.discovered_urls))

\* "PHASE 2: URL PRIORITIZATION" for one iteration order of discovered_urls
keyword_ranking(order) ==
    LET items == sort_by_score_desc(
                    [i \in 1..Len(order) |->
                        [url |-> order[i], score |-> keyword_score_of[order[i]]]])
    IN  item_urls(high_priority(items)) \o item_urls(medium_priority(items))
        \o item_urls(low_priority(items)) \o item_urls(no_priority(items))

\* prioritized_urls[:max_pages]
first_urls(prioritized, pages) ==
    SubSeq(prioritized, 1, IF pages < Len(prioritized) THEN pages ELSE Len(prioritized))

\* the lists discover_urls(start_url, max_pages=pages) can return
discover_urls_results(start_url, pages) ==
    UNION { { first_urls(keyword_ranking(order), pages) :
                order \in set_iteration_orders(seeded_urls(start_url, sitemap, pages).discovery_log) } :
            sitemap \in {SitemapResult(FALSE, <<>>), MixedSitemap} }

\* discover_urls_results of the start URL, computed once per page count
start_url_results == [pages \in 1..MaxJobPages |-> discover_urls_results(StartUrl, pages)]

\* the lists discover_urls can return to run_scraper_thread
discovered_lists(url, pages) ==
    IF url = StartUrl /\ pages \in DOMAIN start_url_results
    THEN start_url_results[pages]
    ELSE discover_urls_results(url, pages)

\* ------------------------------------------------------------------------
\* Pages of a scraping job
\* ------------------------------------------------------------------------

StaffDirectoryUrl == HTTPS \o BaseDomain \o patterns[8]

FacultyDirectoryUrl == HTTPS \o BaseDomain \o patterns[10]

AboutContactsUrl == HTTPS \o BaseDomain \o patterns[19]

\* a contact extracted from the page at url
PageContact(email, phone, name, url) ==
    [Contact(email, phone, name) EXCEPT !.source_url = url]

\* what scrape_url and extract_contacts_from_html give for one URL
PageResult(kind, page_contacts) == [kind |-> kind, contacts |-> page_contacts]

\* one person listed on two pages with different fields
SharedEmailSite ==
    (StaffDirectoryUrl :>
        PageResult("page", << PageContact(<<"a","@","b">>, None, Ann, StaffDirectoryUrl) >>))
    @@ (FacultyDirectoryUrl :>
        PageResult("page", << PageContact(<<" ","a","@","b">>, Phone1, Bob, FacultyDirectoryUrl) >>))
    @@ (AboutContactsUrl :>
        PageResult("page", << PageContact(<<"c","@","d">>, None, Ann, AboutContactsUrl) >>))

\* an extraction that raises, a request that fails, a page with a contact
FailingSite ==
    (StaffDirectoryUrl :> PageResult("raises", <<>>))
    @@ (FacultyDirectoryUrl :> PageResult("fetch_failed", <<>>))
    @@ (AboutContactsUrl :>
        PageResult("page", << PageContact(<<"a","@","b">>, None, Ann, AboutContactsUrl) >>))

\* a contact without an address, a result without content, a page without
\* contacts
PhoneOnlySite ==
    (StaffDirectoryUrl :>
        PageResult("page", << PageContact(None, Phone1, Ann, StaffDirectoryUrl) >>))
    @@ (FacultyDirectoryUrl :> PageResult("no_content", <<>>))
    @@ (AboutContactsUrl :> PageResult("page", <<>>))

JobSites == {SharedEmailSite, FailingSite, PhoneOnlySite}

\* arguments of run_scraper_thread
JobRequests == [url : {StartUrl}, max_pages : 1..MaxJobPages, workers : 1..MaxWorkers]

\* ------------------------------------------------------------------------
\* Requests to /api/start
\* ------------------------------------------------------------------------

\* the JSON body of a request, with the defaults of start_scraping for the
\* keys it leaves out
StartRequest(url, pages) ==
    [url |-> url, max_pages |-> pages, workers |-> 30, enable_deep_crawl |-> FALSE,
     deep_crawl_requests |-> 50]

\* a full URL, a host with spaces around it, no URL, a page count of 0
RequestInputs ==
    { StartRequest(StartUrl, 1),
      StartRequest(<<" ">> \o BaseDomain \o <<"/"," ">>, 2),
      StartRequest(<<" ">>, 1),
      StartRequest(StartUrl, 0) }

NoRequest == StartRequest(<<>>, 0)

Handlers == 1..MaxRequests

\* what scrape_multiple_urls can end with: an exception, or the raw contacts
ScrapeOutcomes ==
    { [raises |-> TRUE, results |-> <<>>],
      [raises |-> FALSE,
       results |-> << Contact(<<"a","@","b">>, None, Ann),
                      Contact(<<" ","a","@","b">>, Phone1, Bob) >>] }

\* ------------------------------------------------------------------------
\* Specification of clean_contact_data applied repeatedly to one record
\* ------------------------------------------------------------------------

IdleClean ==
    /\ raw_contact = Contact(None, None, None)
    /\ contact = Contact(None, None, None)
    /\ clean_passes = 0

IdleDedup ==
    /\ dedup_path = "oxylabs"
    /\ all_contacts = <<>>
    /\ unique_contacts = <<>>
    /\ dedup_done = FALSE
    /\ emails_seen = {}
    /\ pipeline_items = <<>>

IdleExtract ==
    /\ scraper = "oxylabs"
    /\ page = EmptyPage
    /\ use_ai = FALSE
    /\ extract_pc = "done"
    /\ contacts = <<>>
    /\ ai_extractions_count = 0
    /\ ai_success_count = 0

IdleDiscover ==
    /\ max_pages = 0
    /\ max_discovery = 0
    /\ enable_deep_crawl = FALSE
    /\ deep_crawl_requests = 0
    /\ enable_ai_url_filter = FALSE
    /\ sitemap_result = SitemapResult(FALSE, <<>>)
    /\ ai_enabled = FALSE
    /\ llm_style = "fails"
    /\ discover_pc = "idle"
    /\ discovered_urls = {}
    /\ urls_to_process = <<>>
    /\ processed_urls = {}
    /\ max_discovery_requests = 0
    /\ discovery_count = 0
    /\ url_scores = <<>>
    /\ ai_results = <<>>
    /\ prioritized_urls = <<>>
    /\ final_urls = <<>>
    /\ discovery_log = <<>>
    /\ fetch_attempts = 0
    /\ fetch_failed = FALSE
    /\ fetched_after_failure = FALSE
    /\ skipped_entries = 0
    /\ keyword_prioritized_urls = <<>>
    /\ ai_outcome = "off"

\* "scraping_state = {...}" of app.py before any job
InitialScrapingState ==
    [running |-> FALSE, progress |-> 0, status |-> "Idle", urls_discovered |-> 0,
     contacts_found |-> 0, error |-> None]

IdleApp ==
    /\ start_request = <<>>
    /\ start_response = <<>>
    /\ thread_pc = <<>>
    /\ thread_urls = <<>>
    /\ thread_submitted = <<>>
    /\ thread_results = <<>>

IdleStop ==
    /\ stop_response = "none"
    /\ started_at_stop = {}
    /\ started_after_stop = {}

IdleJob ==
    /\ job_pc = "none"
    /\ job_urls = <<>>
    /\ job_request = [url |-> <<>>, max_pages |-> 0, workers |-> 0]
    /\ page_results = <<>>
    /\ future_state = <<>>
    /\ collected = <<>>
    /\ completed = 0
    /\ job_result = <<>>
    /\ IdleStop

IdleLlm ==
    /\ llm_call = [kind |-> "none"]
    /\ llm_pc = "none"
    /\ llm_attempt = 0
    /\ llm_responses = <<>>
    /\ llm_result = LlmEmpty
    /\ llm_contact = None

SharedCounters == {"ai_extractions_count", "ai_success_count", "total_requests"}

IdleFan ==
    /\ pool_workers = 0
    /\ unit_work = <<>>
    /\ unit_pc = <<>>
    /\ unit_reg = <<>>
    /\ total_requests = 0
    /\ rmw_units = [v \in SharedCounters |-> {}]

IdleSitemap ==
    /\ sitemap_answers = <<>>
    /\ sitemap_pc = "none"
    /\ sitemap_path = 0
    /\ found_urls = <<>>
    /\ sitemap_fetched = <<>>
    /\ sitemap_return = <<>>

IdleBatches ==
    /\ pending_batches = <<>>
    /\ sent_batches = <<>>
    /\ batch_failed = <<>>

\* the parts the other specifications leave idle
IdleTools ==
    /\ IdleLlm
    /\ IdleFan
    /\ IdleSitemap
    /\ IdleBatches

IdleService ==
    /\ scraping_state = InitialScrapingState
    /\ IdleApp
    /\ IdleJob
    /\ IdleTools

InitClean ==
    /\ raw_contact \in RawContactInputs
    /\ contact = raw_contact
    /\ clean_passes = 0
    /\ IdleDedup
    /\ IdleExtract
    /\ IdleDiscover
    /\ IdleService

CleanContact ==
    /\ clean_passes < MaxCleanPasses
    /\ contact' = clean_contact_data(contact)
    /\ clean_passes' = clean_passes + 1
    /\ UNCHANGED <<raw_contact, dedupVars, serviceVars, extractVars, discoverVars>>

NextClean == CleanContact

SpecClean == InitClean /\ [][NextClean]_vars

\* ------------------------------------------------------------------------
\* Specification of de-duplication
\* ------------------------------------------------------------------------

InitDedup ==
    /\ dedup_path \in {"oxylabs", "scrapy"}
    /\ all_contacts = <<>>
    /\ unique_contacts = <<>>
    /\ dedup_done = FALSE
    /\ emails_seen = {}
    /\ pipeline_items = <<>>
    /\ IdleClean
    /\ IdleExtract
    /\ IdleDiscover
    /\ IdleService

\* scrape_multiple_urls: all_contacts.extend(contacts), one contact at a time
ExtendContacts(c) ==
    /\ dedup_path = "oxylabs"
    /\ ~dedup_done
    /\ Len(all_contacts) < MaxContacts
    /\ all_contacts' = Append(all_contacts, c)
    /\ UNCHANGED <<dedup_path, unique_contacts, dedup_done, emails_seen,
                   pipeline_items, cleanVars, serviceVars,
                   extractVars, discoverVars>>

\* scrape_multiple_urls, "Phase 2: Clean data and create CSV"
CleanAndDeduplicate ==
    /\ dedup_path = "oxylabs"
    /\ ~dedup_done
    /\ all_contacts # <<>>
    /\ unique_contacts' = clean_and_deduplicate_contacts(all_contacts)
    /\ dedup_done' = TRUE
    /\ UNCHANGED <<dedup_path, all_contacts, emails_seen, pipeline_items, cleanVars, serviceVars,
                   extractVars, discoverVars>>

\* the spider yields an item and DuplicateFilterPipeline.process_item handles it
PipelineProcessItem(item) ==
    /\ dedup_path = "scrapy"
    /\ Len(all_contacts) < MaxContacts
    /\ LET st == process_item([emails_seen |-> emails_seen, items |-> pipeline_items],
                              item)
       IN  /\ emails_seen' = st.emails_seen
           /\ pipeline_items' = st.items
    /\ all_contacts' = Append(all_contacts, item)
    /\ UNCHANGED <<dedup_path, unique_contacts, dedup_done, cleanVars, serviceVars,
                   extractVars, discoverVars>>

NextDedup ==
    \/ \E c \in DedupInputs : ExtendContacts(c)
    \/ CleanAndDeduplicate
    \/ \E item \in DedupInputs : PipelineProcessItem(item)

SpecDedup == InitDedup /\ [][NextDedup]_vars

\* ------------------------------------------------------------------------
\* Specification of contact extraction from one page
\* ------------------------------------------------------------------------

InitExtract ==
    /\ \/ /\ scraper = "oxylabs"
          /\ page \in OxylabsPages
          /\ use_ai \in BOOLEAN
          /\ extract_pc = "containers"
       \/ /\ scraper = "spider"
          /\ page \in SpiderPages
          /\ use_ai = FALSE
          /\ extract_pc = "containers"
    /\ contacts = <<>>
    /\ ai_extractions_count = 0
    /\ ai_success_count = 0
    /\ IdleClean
    /\ IdleDedup
    /\ IdleDiscover
    /\ IdleService

\* extract_contacts_from_html up to "if not contacts": content format, then
\* the container selectors
OxylabsContainers ==
    /\ scraper = "oxylabs"
    /\ extract_pc = "containers"
    /\ contacts' = IF page.known_format THEN structural_contacts(page) ELSE <<>>
    /\ extract_pc' = IF page.known_format /\ contacts' = <<>> THEN "mailto" ELSE "done"
    /\ UNCHANGED <<scraper, page, use_ai, ai_extractions_count, ai_success_count,
                   cleanVars, serviceVars, dedupVars, discoverVars>>

\* "Find all email links and extract context around them"
OxylabsMailto ==
    /\ scraper = "oxylabs"
    /\ extract_pc = "mailto"
    /\ LET r == mailto_loop([contacts |-> contacts, ai_calls |-> 0, ai_successes |-> 0],
                            page.mailto_links, page.source_url, use_ai)
       IN  /\ contacts' = r.contacts
           /\ ai_extractions_count' = ai_extractions_count + r.ai_calls
           /\ ai_success_count' = ai_success_count + r.ai_successes
    /\ extract_pc' = IF contacts' = <<>> THEN "text" ELSE "done"
    /\ UNCHANGED <<scraper, page, use_ai, cleanVars, serviceVars, dedupVars, discoverVars>>

\* the orders in which "for email in set(emails)" can visit the addresses
iteration_orders(emails) ==
    LET S == {emails[i] : i \in 1..Len(emails)}
    IN  {o \in [1..Cardinality(S) -> S] : \A i, j \in DOMAIN o : o[i] = o[j] => i = j}

\* "Searching for emails in text with context"
OxylabsText ==
    /\ scraper = "oxylabs"
    /\ extract_pc = "text"
    /\ \E emails \in iteration_orders(page.text_emails) :
          contacts' = contacts \o text_email_loop(emails, page)
    /\ extract_pc' = "done"
    /\ UNCHANGED <<scraper, page, use_ai, ai_extractions_count, ai_success_count,
                   cleanVars, serviceVars, dedupVars, discoverVars>>

\* "Strategy 1: Look for common contact container classes"
SpiderContainers ==
    /\ scraper = "spider"
    /\ extract_pc = "containers"
    /\ LET k == first_selector_hit(spider_selectors, page.selections)
       IN  IF k = 0
           THEN /\ extract_pc' = "rows"
                /\ UNCHANGED contacts
           ELSE /\ contacts' = spider_element_contacts(
                                   select(page.selections, spider_selectors[k]), page.url)
                /\ extract_pc' = "done"
    /\ UNCHANGED <<scraper, page, use_ai, ai_extractions_count, ai_success_count,
                   cleanVars, serviceVars, dedupVars, discoverVars>>

\* "Strategy 2: Look for structured data (tables, lists)"
SpiderRows ==
    /\ scraper = "spider"
    /\ extract_pc = "rows"
    /\ IF page.table_rows = <<>>
       THEN /\ extract_pc' = "page"
            /\ UNCHANGED contacts
       ELSE /\ contacts' = spider_element_contacts(page.table_rows, page.url)
            /\ extract_pc' = "done"
    /\ UNCHANGED <<scraper, page, use_ai, ai_extractions_count, ai_success_count,
                   cleanVars, serviceVars, dedupVars, discoverVars>>

\* "Strategy 3: Page-wide extraction (last resort)"
SpiderPageWide ==
    /\ scraper = "spider"
    /\ extract_pc = "page"
    /\ contacts' = IF \E keyword \in page_keywords : str_contains(str_lower(page.url), keyword)
                   THEN spider_element_contacts(<<page.whole>>, page.url)
                   ELSE <<>>
    /\ extract_pc' = "done"
    /\ UNCHANGED <<scraper, page, use_ai, ai_extractions_count, ai_success_count,
                   cleanVars, serviceVars, dedupVars, discoverVars>>

NextExtract ==
    \/ OxylabsContainers
    \/ OxylabsMailto
    \/ OxylabsText
    \/ SpiderContainers
    \/ SpiderRows
    \/ SpiderPageWide

SpecExtract == InitExtract /\ [][NextExtract]_vars

\* ------------------------------------------------------------------------
\* Specification of discover_urls
\* ------------------------------------------------------------------------

InitDiscover ==
    /\ \E call \in DiscoverCalls :
          /\ max_pages = call.max_pages
          /\ max_discovery = call.max_discovery
          /\ enable_deep_crawl = call.enable_deep_crawl
          /\ deep_crawl_requests = call.deep_crawl_requests
          /\ enable_ai_url_filter = call.enable_ai_url_filter
          /\ sitemap_result = call.sitemap_result
          /\ ai_enabled = call.ai_enabled
          /\ llm_style = call.llm_style
    /\ discover_pc = "sitemap"
    /\ discovered_urls = {StartUrl}
    /\ urls_to_process = <<StartUrl>>
    /\ processed_urls = {}
    /\ max_discovery_requests = 0
    /\ discovery_count = 0
    /\ url_scores = <<>>
    /\ ai_results = <<>>
    /\ prioritized_urls = <<>>
    /\ final_urls = <<>>
    /\ discovery_log = <<StartUrl>>
    /\ fetch_attempts = 0
    /\ fetch_failed = FALSE
    /\ fetched_after_failure = FALSE
    /\ skipped_entries = 0
    /\ keyword_prioritized_urls = <<>>
    /\ ai_outcome = "off"
    /\ IdleClean
    /\ IdleDedup
    /\ IdleExtract
    /\ IdleService

\* "METHOD 1: SITEMAP DISCOVERY"
SitemapDiscovery ==
    /\ discover_pc = "sitemap"
    /\ LET st == IF sitemap_result.raises
                 THEN [discovered_urls |-> discovered_urls,
                       discovery_log   |-> discovery_log,
                       urls_to_process |-> urls_to_process]
                 ELSE sitemap_loop([discovered_urls |-> discovered_urls,
                                    discovery_log   |-> discovery_log,
                                    urls_to_process |-> urls_to_process],
                                   sitemap_result.urls, BaseDomain, max_pages)
       IN  /\ discovered_urls' = st.discovered_urls
           /\ discovery_log' = st.discovery_log
           /\ urls_to_process' = st.urls_to_process
    /\ discover_pc' = "patterns"
    /\ UNCHANGED <<processed_urls, max_discovery_requests, discovery_count,
                   fetch_attempts, fetch_failed, fetched_after_failure,
                   skipped_entries,
                   discoverParams, rankVars, cleanVars, serviceVars, dedupVars, extractVars>>

\* "METHOD 2: PATTERN-BASED DISCOVERY"
PatternDiscovery ==
    /\ discover_pc = "patterns"
    /\ LET st == pattern_loop([discovered_urls |-> discovered_urls,
                               discovery_log   |-> discovery_log,
                               urls_to_process |-> urls_to_process],
                              discover_urls_by_patterns(BaseDomain, discovered_urls))
       IN  /\ discovered_urls' = st.discovered_urls
           /\ discovery_log' = st.discovery_log
           /\ urls_to_process' = st.urls_to_process
    /\ discover_pc' = "deep"
    /\ UNCHANGED <<processed_urls, max_discovery_requests, discovery_count,
                   fetch_attempts, fetch_failed, fetched_after_failure,
                   skipped_entries,
                   discoverParams, rankVars, cleanVars, serviceVars, dedupVars, extractVars>>

\* "METHOD 3: DEEP CRAWLING", up to the loop: the request budget, and the
\* queue with the staff URLs first
StartDeepCrawl ==
    /\ discover_pc = "deep"
    /\ max_discovery_requests' = discovery_budget(enable_deep_crawl, deep_crawl_requests)
    /\ discovery_count' = 0
    /\ urls_to_process' = SelectSeq(urls_to_process, is_staff_url)
                          \o SelectSeq(urls_to_process, LAMBDA url : ~is_staff_url(url))
    /\ discover_pc' = "crawl"
    /\ UNCHANGED <<discovered_urls, processed_urls, discovery_log,
                   fetch_attempts, fetch_failed, fetched_after_failure,
                   skipped_entries,
                   discoverParams, rankVars, cleanVars, serviceVars, dedupVars, extractVars>>

\* a loop that also ends at the first failed fetch
crawl_until_failure ==
    /\ urls_to_process # <<>>
    /\ Cardinality(discovered_urls) < max_discovery
    /\ discovery_count < max_discovery_requests
    /\ max_discovery_requests > 0
    /\ ~fetch_failed

\* a loop that does not count its requests against the budget
crawl_ignoring_budget ==
    /\ urls_to_process # <<>>
    /\ Cardinality(discovered_urls) < max_discovery
    /\ max_discovery_requests > 0

\* the condition of the crawl loop
crawl_continues ==
    /\ urls_to_process # <<>>
    /\ Cardinality(discovered_urls) < max_discovery
    /\ discovery_count < max_discovery_requests
    /\ max_discovery_requests > 0

\* an iteration that pops an entry already processed: "continue"
CrawlSkip ==
    /\ discover_pc = "crawl"
    /\ crawl_continues
    /\ Head(urls_to_process) \in processed_urls
    /\ urls_to_process' = Tail(urls_to_process)
    /\ skipped_entries' = skipped_entries + 1
    /\ UNCHANGED <<discover_pc, discovered_urls, processed_urls, max_discovery_requests,
                   discovery_count, discovery_log, fetch_attempts, fetch_failed,
                   fetched_after_failure, discoverParams, rankVars, cleanVars, serviceVars, dedupVars, extractVars>>

\* an iteration that fetches the popped URL and, given a page, reads its links
CrawlFetch(outcome) ==
    /\ discover_pc = "crawl"
    /\ crawl_continues
    /\ LET current_url == Head(urls_to_process)
           popped == [discovered_urls |-> discovered_urls,
                      discovery_log   |-> discovery_log,
                      urls_to_process |-> Tail(urls_to_process)]
           st == IF outcome = "ok"
                 THEN link_loop(popped, page_links(current_url), BaseDomain)
                 ELSE popped
       IN  /\ current_url \notin processed_urls
           /\ processed_urls' = processed_urls \cup {current_url}
           /\ discovered_urls' = st.discovered_urls
           /\ discovery_log' = st.discovery_log
           /\ urls_to_process' = st.urls_to_process
    /\ discovery_count' = discovery_count + 1
    /\ fetch_attempts' = fetch_attempts + 1
    /\ fetch_failed' = (fetch_failed \/ outcome # "ok")
    /\ fetched_after_failure' = (fetched_after_failure \/ fetch_failed)
    /\ UNCHANGED <<discover_pc, max_discovery_requests, skipped_entries,
                   discoverParams, rankVars, cleanVars, serviceVars, dedupVars, extractVars>>

\* "PHASE 2: URL PRIORITIZATION", after the crawl loop has ended
Prioritize(order) ==
    /\ discover_pc = "crawl"
    /\ ~crawl_continues
    /\ url_scores' = sort_by_score_desc(
                        [i \in 1..Len(order) |->
                            [url |-> order[i], score |-> keyword_score_of[order[i]]]])
    /\ prioritized_urls' = item_urls(high_priority(url_scores'))
                           \o item_urls(medium_priority(url_scores'))
                           \o item_urls(low_priority(url_scores'))
                           \o item_urls(no_priority(url_scores'))
    /\ keyword_prioritized_urls' = prioritized_urls'
    /\ discover_pc' = IF enable_ai_url_filter THEN "ai" ELSE "return"
    /\ UNCHANGED <<ai_results, final_urls, ai_outcome,
                   discoverParams, crawlVars, cleanVars, serviceVars, dedupVars, extractVars>>

\* "PHASE 3: AI URL PRIORITIZATION (SMART FILTER)"
AiUrlFilter ==
    /\ discover_pc = "ai"
    /\ LET uncertain_urls == uncertain_items(url_scores)
           results == analyze_urls_for_contacts(ai_enabled, item_urls(uncertain_urls),
                                                llm_style)
           key_error == \E i \in 1..Len(results) : ~results[i].has_url
           rescored == rescore_loop(uncertain_urls, results)
           all_items == high_priority(url_scores) \o rescored.items
       IN  IF ~ai_enabled
           THEN /\ ai_outcome' = "unavailable"
                /\ UNCHANGED <<url_scores, ai_results, prioritized_urls>>
           ELSE IF uncertain_urls = <<>>
           THEN /\ ai_outcome' = "no_uncertain"
                /\ UNCHANGED <<url_scores, ai_results, prioritized_urls>>
           ELSE IF results = <<>>
           THEN /\ ai_outcome' = "no_results"
                /\ ai_results' = results
                /\ UNCHANGED <<url_scores, prioritized_urls>>
           ELSE IF key_error
           THEN /\ ai_outcome' = "raised"
                /\ ai_results' = results
                /\ UNCHANGED <<url_scores, prioritized_urls>>
           ELSE IF rescored.raised
           THEN /\ ai_outcome' = "raised"
                /\ ai_results' = results
                /\ url_scores' = all_items
                /\ UNCHANGED prioritized_urls
           ELSE /\ ai_outcome' = "applied"
                /\ ai_results' = results
                /\ url_scores' = all_items
                /\ prioritized_urls' = item_urls(sort_by_score_desc(all_items))
    /\ discover_pc' = "return"
    /\ UNCHANGED <<final_urls, keyword_prioritized_urls,
                   discoverParams, crawlVars, cleanVars, serviceVars, dedupVars, extractVars>>

\* "final_urls = prioritized_urls[:max_pages]"
ReturnUrls ==
    /\ discover_pc = "return"
    /\ final_urls' = SubSeq(prioritized_urls, 1,
                            IF max_pages < Len(prioritized_urls)
                            THEN max_pages ELSE Len(prioritized_urls))
    /\ discover_pc' = "done"
    /\ UNCHANGED <<url_scores, ai_results, prioritized_urls, keyword_prioritized_urls,
                   ai_outcome, discoverParams, crawlVars, cleanVars, serviceVars, dedupVars,
                   extractVars>>

NextDiscover ==
    \/ SitemapDiscovery
    \/ PatternDiscovery
    \/ StartDeepCrawl
    \/ CrawlSkip
    \/ \E outcome \in FetchOutcomes : CrawlFetch(outcome)
    \/ \E order \in set_iteration_orders(discovery_log) : Prioritize(order)
    \/ AiUrlFilter
    \/ ReturnUrls

SpecDiscover == InitDiscover /\ [][NextDiscover]_vars

\* one iteration of the crawl loop: a skipped entry, a fetch that gives no
\* page, or a fetch that gives one
CrawlIteration ==
    \/ CrawlSkip
    \/ \E outcome \in FetchOutcomes \ {"ok"} : CrawlFetch(outcome)
    \/ CrawlFetch("ok")

\* every request of the crawl loop returns (it has timeout=120), so an
\* iteration that can be made is made
SpecCrawlFair == SpecDiscover /\ WF_vars(CrawlIteration)

\* ------------------------------------------------------------------------
\* Specification of one scraping job: run_scraper_thread, the worker pool of
\* scrape_multiple_urls, and a request to /api/stop
\* ------------------------------------------------------------------------

InitJob ==
    /\ IdleClean
    /\ IdleDedup
    /\ IdleExtract
    /\ IdleDiscover
    /\ IdleApp
    /\ IdleStop
    /\ IdleTools
    /\ scraping_state = InitialScrapingState
    /\ job_request \in JobRequests
    /\ page_results \in JobSites
    /\ job_pc = "started"
    /\ job_urls = <<>>
    /\ future_state = <<>>
    /\ collected = <<>>
    /\ completed = 0
    /\ job_result = <<>>

\* the result of scrape_url and the extraction for a URL of the job
page_result(url) ==
    IF url \in DOMAIN page_results THEN page_results[url] ELSE PageResult("fetch_failed", <<>>)

\* what the future of the i-th submitted URL ends with
future_result(i) == scrape_single_url(page_result(submitted_urls(job_urls)[i]))

\* the units a worker has picked up
started_units == {i \in DOMAIN future_state : future_state[i] # "pending"}

\* run_scraper_thread from its first statement to the call of discover_urls
JobBegin ==
    /\ job_pc = "started"
    /\ scraping_state' = begin_job(scraping_state)
    /\ job_pc' = "discover"
    /\ UNCHANGED <<job_urls, job_request, page_results, poolVars, job_result, stopVars,
                   all_contacts, unique_contacts, otherThanJob>>

\* discover_urls and the reports that follow it
JobDiscover ==
    /\ job_pc = "discover"
    /\ job_urls' \in discovered_lists(job_request.url, job_request.max_pages)
    /\ scraping_state' = report_discovered(scraping_state, job_urls')
    /\ job_pc' = "submit"
    /\ UNCHANGED <<job_request, page_results, poolVars, job_result, stopVars,
                   all_contacts, unique_contacts, otherThanJob>>

\* scrape_multiple_urls up to the end of the dict comprehension that submits
\* every URL
SubmitAll ==
    /\ job_pc = "submit"
    /\ future_state' = [i \in 1..Len(submitted_urls(job_urls)) |-> "pending"]
    /\ all_contacts' = <<>>
    /\ completed' = 0
    /\ collected' = <<>>
    /\ job_pc' = "collect"
    /\ UNCHANGED <<scraping_state, job_urls, job_request, page_results, job_result,
                   stopVars, unique_contacts, otherThanJob>>

\* a free worker takes the oldest queued unit and starts its request
StartUnit(i) ==
    /\ job_pc = "collect"
    /\ i \in DOMAIN future_state
    /\ future_state[i] = "pending"
    /\ \A j \in 1..(i - 1) : future_state[j] # "pending"
    /\ Cardinality({j \in DOMAIN future_state : future_state[j] = "running"})
           < job_request.workers
    /\ future_state' = [future_state EXCEPT ![i] = "running"]
    /\ started_after_stop' = IF stop_response = "accepted"
                             THEN started_after_stop \cup {i}
                             ELSE started_after_stop
    /\ UNCHANGED <<scraping_state, job_pc, job_urls, job_request, page_results, collected,
                   completed, job_result, stop_response, started_at_stop,
                   all_contacts, unique_contacts, otherThanJob>>

\* scrape_single_url returns or raises in its worker
FinishUnit(i) ==
    /\ job_pc = "collect"
    /\ i \in DOMAIN future_state
    /\ future_state[i] = "running"
    /\ future_state' = [future_state EXCEPT ![i] = "finished"]
    /\ UNCHANGED <<scraping_state, job_pc, job_urls, job_request, page_results, collected,
                   completed, job_result, stopVars, all_contacts, unique_contacts,
                   otherThanJob>>

\* one iteration of "for future in as_completed(future_to_url)"
Collect(i) ==
    /\ job_pc = "collect"
    /\ i \in DOMAIN future_state
    /\ future_state[i] = "finished"
    /\ i \notin Range(collected)
    /\ collected' = Append(collected, i)
    /\ all_contacts' = collect_future([all_contacts |-> all_contacts,
                                       completed |-> completed], future_result(i)).all_contacts
    /\ completed' = collect_future([all_contacts |-> all_contacts,
                                    completed |-> completed], future_result(i)).completed
    /\ UNCHANGED <<scraping_state, job_pc, job_urls, job_request, page_results, future_state,
                   job_result, stopVars, unique_contacts, otherThanJob>>

\* the rest of scrape_multiple_urls after the loop: the contacts are cleaned
\* and saved, and all_contacts is returned; an IndexError leaves through the
\* handler of run_scraper_thread
SaveAndReturn ==
    /\ job_pc = "collect"
    /\ Len(collected) = Len(future_state)
    /\ unique_contacts' = clean_phase(all_contacts).unique_contacts
    /\ IF clean_phase(all_contacts).raised
       THEN /\ scraping_state' = report_error(scraping_state)
            /\ job_pc' = "finally"
            /\ UNCHANGED job_result
       ELSE /\ job_result' = all_contacts
            /\ job_pc' = "count"
            /\ UNCHANGED scraping_state
    /\ UNCHANGED <<job_urls, job_request, page_results, poolVars, stopVars,
                   all_contacts, otherThanJob>>

\* run_scraper_thread after scrape_multiple_urls has returned
JobComplete ==
    /\ job_pc = "count"
    /\ unique_contacts' = clean_and_deduplicate_contacts(job_result)
    /\ scraping_state' = report_complete(scraping_state, job_urls, unique_contacts')
    /\ job_pc' = "finally"
    /\ UNCHANGED <<job_urls, job_request, page_results, poolVars, job_result, stopVars,
                   all_contacts, otherThanJob>>

\* "finally" of run_scraper_thread
JobFinally ==
    /\ job_pc = "finally"
    /\ scraping_state' = end_job(scraping_state)
    /\ job_pc' = "ended"
    /\ UNCHANGED <<job_urls, job_request, page_results, poolVars, job_result, stopVars,
                   all_contacts, unique_contacts, otherThanJob>>

\* the handler of /api/stop, once
StopScraping ==
    /\ stop_response = "none"
    /\ IF ~scraping_state.running
       THEN /\ stop_response' = "No scraping in progress"
            /\ UNCHANGED <<scraping_state, started_at_stop>>
       ELSE /\ scraping_state' = request_stop(scraping_state)
            /\ stop_response' = "accepted"
            /\ started_at_stop' = started_units
    /\ UNCHANGED <<job_pc, job_urls, job_request, page_results, poolVars, job_result,
                   started_after_stop, all_contacts, unique_contacts, otherThanJob>>

NextJob ==
    \/ JobBegin
    \/ JobDiscover
    \/ SubmitAll
    \/ \E i \in 1..MaxJobPages : StartUnit(i)
    \/ \E i \in 1..MaxJobPages : FinishUnit(i)
    \/ \E i \in 1..MaxJobPages : Collect(i)
    \/ SaveAndReturn
    \/ JobComplete
    \/ JobFinally
    \/ StopScraping

SpecJob == InitJob /\ [][NextJob]_vars

\* ------------------------------------------------------------------------
\* Specification of the web service: handlers of /api/start and the job
\* threads they start
\* ------------------------------------------------------------------------

InitApp ==
    /\ IdleClean
    /\ IdleDedup
    /\ IdleExtract
    /\ IdleDiscover
    /\ IdleJob
    /\ IdleTools
    /\ scraping_state = InitialScrapingState
    /\ start_request = [h \in Handlers |-> NoRequest]
    /\ start_response = [h \in Handlers |-> "none"]
    /\ thread_pc = [h \in Handlers |-> "none"]
    /\ thread_urls = [h \in Handlers |-> <<>>]
    /\ thread_submitted = [h \in Handlers |-> <<>>]
    /\ thread_results = [h \in Handlers |-> <<>>]

\* start_scraping, the handler of /api/start, for the request body data
StartScraping(h, data) ==
    /\ start_response[h] = "none"
    /\ start_request' = [start_request EXCEPT ![h] = data]
    /\ IF scraping_state.running
       THEN /\ start_response' = [start_response EXCEPT ![h] = "Scraping already in progress"]
            /\ UNCHANGED thread_pc
       ELSE IF validate_start(data) # "ok"
       THEN /\ start_response' = [start_response EXCEPT ![h] = validate_start(data)]
            /\ UNCHANGED thread_pc
       ELSE /\ start_response' = [start_response EXCEPT ![h] = "Scraping started"]
            /\ thread_pc' = [thread_pc EXCEPT ![h] = "started"]
    /\ UNCHANGED <<scraping_state, thread_urls, thread_submitted, thread_results,
                   otherThanApp>>

\* run_scraper_thread from its first statement to the call of discover_urls
ThreadBegin(h) ==
    /\ thread_pc[h] = "started"
    /\ scraping_state' = begin_job(scraping_state)
    /\ thread_pc' = [thread_pc EXCEPT ![h] = "discover"]
    /\ UNCHANGED <<start_request, start_response, thread_urls, thread_submitted,
                   thread_results, otherThanApp>>

\* discover_urls and the reports that follow it
ThreadDiscover(h) ==
    /\ thread_pc[h] = "discover"
    /\ \E urls \in discovered_lists(request_url(start_request[h]),
                                    start_request[h].max_pages) :
           /\ thread_urls' = [thread_urls EXCEPT ![h] = urls]
           /\ scraping_state' = report_discovered(scraping_state, urls)
    /\ thread_pc' = [thread_pc EXCEPT ![h] = "scrape"]
    /\ UNCHANGED <<start_request, start_response, thread_submitted, thread_results,
                   otherThanApp>>

\* scraper.scrape_multiple_urls(discovered_urls, max_workers=workers)
ThreadScrape(h, outcome) ==
    /\ thread_pc[h] = "scrape"
    /\ thread_submitted' = [thread_submitted EXCEPT ![h] = submitted_urls(thread_urls[h])]
    /\ IF outcome.raises
       THEN /\ scraping_state' = report_error(scraping_state)
            /\ thread_pc' = [thread_pc EXCEPT ![h] = "finally"]
            /\ UNCHANGED thread_results
       ELSE /\ thread_results' = [thread_results EXCEPT ![h] = outcome.results]
            /\ thread_pc' = [thread_pc EXCEPT ![h] = "count"]
            /\ UNCHANGED scraping_state
    /\ UNCHANGED <<start_request, start_response, thread_urls, otherThanApp>>

\* run_scraper_thread after scrape_multiple_urls has returned
ThreadComplete(h) ==
    /\ thread_pc[h] = "count"
    /\ scraping_state' = report_complete(scraping_state, thread_urls[h],
                             clean_and_deduplicate_contacts(thread_results[h]))
    /\ thread_pc' = [thread_pc EXCEPT ![h] = "finally"]
    /\ UNCHANGED <<start_request, start_response, thread_urls, thread_submitted,
                   thread_results, otherThanApp>>

\* "finally" of run_scraper_thread
ThreadFinally(h) ==
    /\ thread_pc[h] = "finally"
    /\ scraping_state' = end_job(scraping_state)
    /\ thread_pc' = [thread_pc EXCEPT ![h] = "ended"]
    /\ UNCHANGED <<start_request, start_response, thread_urls, thread_submitted,
                   thread_results, otherThanApp>>

NextApp ==
    \/ \E h \in Handlers : \E data \in RequestInputs : StartScraping(h, data)
    \/ \E h \in Handlers : ThreadBegin(h)
    \/ \E h \in Handlers : ThreadDiscover(h)
    \/ \E h \in Handlers : \E outcome \in ScrapeOutcomes : ThreadScrape(h, outcome)
    \/ \E h \in Handlers : ThreadComplete(h)
    \/ \E h \in Handlers : ThreadFinally(h)

SpecApp == InitApp /\ [][NextApp]_vars

\* ------------------------------------------------------------------------
\* Specification: one call of the language model with its retries
\* ------------------------------------------------------------------------

\* the largest max_retries a call is made with
MaxRetries == 2

\* contacts as the heuristics leave them when the AI is asked: no usable name
LlmContacts ==
    { NewContact(<<"i","a","n","@","u",".","e","d">>, SourceUrl),
      [NewContact(<<"i","a","n","@","u",".","e","d">>, SourceUrl) EXCEPT
          !.designation = <<"S","e","n","i","o","r"," ","L","e","c","t","u","r","e","r">>,
          !.phone = <<"5","5","5"," ","0","1","0","0">>] }

\* what the model puts in its JSON object when it answers
LlmAnswers ==
    { [name |-> <<" ","I","a","n"," ","K","a","y"," ">>, designation |-> <<"D","e","a","n">>,
       phone |-> <<"1","2","3","4","5">>, department |-> <<"P","h","y","s","i","c","s">>],
      [name |-> <<"C","o","n","t","a","c","t"," ","u","s">>, designation |-> <<"N","/","A">>,
       phone |-> <<"5","5","5"," ","0","1","9","9">>, department |-> None] }

LlmCalls ==
    [kind : {"contact"}, enabled : BOOLEAN, max_retries : 0..MaxRetries,
     contact : LlmContacts, answer : LlmAnswers, entries : {<<>>}]
    \cup
    [kind : {"urls"}, enabled : BOOLEAN, max_retries : 0..MaxRetries,
     contact : {NewContact(<<>>, SourceUrl)}, answer : {NoAiResult},
     entries : {<<>>, <<Entry(StartUrl, 90)>>}]

InitLlm ==
    /\ IdleClean
    /\ IdleDedup
    /\ IdleExtract
    /\ IdleDiscover
    /\ scraping_state = InitialScrapingState
    /\ IdleApp
    /\ IdleJob
    /\ IdleFan
    /\ IdleSitemap
    /\ IdleBatches
    /\ llm_call \in LlmCalls
    /\ llm_pc = "calling"
    /\ llm_attempt = 0
    /\ llm_responses = <<>>
    /\ llm_result = LlmEmpty
    /\ llm_contact = llm_call.contact

otherThanLlm == <<cleanVars, dedupVars, extractVars, discoverVars, scraping_state,
                  appVars, jobVars, fanVars, sitemapVars, batchVars>>

\* "if not self.enabled: return {}" ("or not urls: return []")
LlmDisabled ==
    /\ llm_pc = "calling"
    /\ ~llm_call.enabled \/ (llm_call.kind = "urls" /\ llm_call.entries = <<>>)
    /\ llm_pc' = "returned"
    /\ llm_result' = LlmEmpty
    /\ UNCHANGED <<llm_call, llm_attempt, llm_responses, llm_contact, otherThanLlm>>

\* one iteration of the loop: the request, its handling, and the except clause
LlmAttempt(response) ==
    /\ llm_pc = "calling"
    /\ llm_call.enabled
    /\ llm_call.kind = "urls" => llm_call.entries # <<>>
    /\ llm_attempt < llm_call.max_retries + 1
    /\ llm_responses' = Append(llm_responses, response)
    /\ llm_pc' = after_attempt(call_model(llm_call, response), llm_attempt,
                               llm_call.max_retries).pc
    /\ llm_result' = after_attempt(call_model(llm_call, response), llm_attempt,
                                   llm_call.max_retries).result
    /\ llm_attempt' = IF llm_pc' = "calling" THEN llm_attempt + 1 ELSE llm_attempt
    /\ UNCHANGED <<llm_call, llm_contact, otherThanLlm>>

\* the caller goes on: extract_contact_from_context fills the contact, and an
\* exception that reached it is swallowed by its own "except Exception"
LlmUse ==
    /\ llm_pc = "returned"
    /\ llm_pc' = "done"
    /\ llm_contact' = IF llm_call.kind = "contact" /\ ~llm_result.raised
                      THEN contact_after_ai(llm_call.contact, llm_result)
                      ELSE llm_contact
    /\ UNCHANGED <<llm_call, llm_attempt, llm_responses, llm_result, otherThanLlm>>

NextLlm ==
    \/ LlmDisabled
    \/ \E response \in LlmResponses : LlmAttempt(response)
    \/ LlmUse

SpecLlm == InitLlm /\ [][NextLlm]_vars

\* ------------------------------------------------------------------------
\* Specification: the worker threads of scrape_multiple_urls and the counters
\* they share.  Every unit runs scrape_single_url on the one scraper object;
\* "self.x += 1" is a load and a store with other threads free to run between.
\* ------------------------------------------------------------------------

\* what the page of a unit leads to: no AI call, a call answered with a name for
\* a contact that has none, or a call that comes back empty after its retries
UnitWork == {"no_ai", "name", "empty"}

Units == 1..MaxWorkers

UnitContact(u) == NewContact(<<"u", UPPER[u], "@", "u", ".", "e", "d">>, SourceUrl)

\* the list scrape_single_url of unit u returns
unit_result(u) ==
    IF unit_work[u] = "name"
    THEN <<contact_after_ai(UnitContact(u),
                [raised |-> FALSE, empty |-> FALSE, entries |-> <<>>,
                 data |-> [NoAiResult EXCEPT !.name = <<"I", "a", "n", " ", "K">>]])>>
    ELSE <<UnitContact(u)>>

running_units == {u \in Units : unit_pc[u] \notin {"queued", "finished", "collected"}}

InitFan ==
    /\ IdleClean
    /\ dedup_path = "oxylabs"
    /\ all_contacts = <<>>
    /\ unique_contacts = <<>>
    /\ dedup_done = FALSE
    /\ emails_seen = {}
    /\ pipeline_items = <<>>
    /\ scraper = "oxylabs"
    /\ page = EmptyPage
    /\ use_ai = TRUE
    /\ extract_pc = "done"
    /\ contacts = <<>>
    /\ ai_extractions_count = 0
    /\ ai_success_count = 0
    /\ IdleDiscover
    /\ scraping_state = InitialScrapingState
    /\ IdleApp
    /\ IdleJob
    /\ IdleLlm
    /\ IdleSitemap
    /\ IdleBatches
    /\ pool_workers \in 1..MaxWorkers
    /\ unit_work \in [Units -> UnitWork]
    /\ unit_pc = [u \in Units |-> "queued"]
    /\ unit_reg = [u \in Units |-> 0]
    /\ total_requests = 0
    /\ rmw_units = [v \in SharedCounters |-> {}]

otherThanFan == <<cleanVars, dedupRest, unique_contacts, scraper, page, use_ai,
                  extract_pc, contacts, discoverVars, scraping_state, appVars, jobVars,
                  llmVars, pool_workers, unit_work, sitemapVars, batchVars>>

\* a worker takes the unit: the fetch and the heuristics up to "if needs_ai:"
UnitStart(u) ==
    /\ unit_pc[u] = "queued"
    /\ Cardinality(running_units) < pool_workers
    /\ unit_pc' = [unit_pc EXCEPT ![u] = IF unit_work[u] = "no_ai" THEN "return"
                                         ELSE "count"]
    /\ UNCHANGED <<unit_reg, ai_extractions_count, ai_success_count, total_requests,
                   rmw_units, all_contacts, otherThanFan>>

\* "self.ai_extractions_count += 1": the load
LoadExtractions(u) ==
    /\ unit_pc[u] = "count"
    /\ unit_reg' = [unit_reg EXCEPT ![u] = ai_extractions_count]
    /\ unit_pc' = [unit_pc EXCEPT ![u] = "counted"]
    /\ UNCHANGED <<ai_extractions_count, ai_success_count, total_requests, rmw_units,
                   all_contacts, otherThanFan>>

\* "self.ai_extractions_count += 1": the store
StoreExtractions(u) ==
    /\ unit_pc[u] = "counted"
    /\ ai_extractions_count' = unit_reg[u] + 1
    /\ rmw_units' = [rmw_units EXCEPT !["ai_extractions_count"] = @ \cup {u}]
    /\ unit_pc' = [unit_pc EXCEPT ![u] = "request"]
    /\ UNCHANGED <<unit_reg, ai_success_count, total_requests, all_contacts,
                   otherThanFan>>

\* extract_contact_info up to the answer: an answer carries "usage", which
\* _call_openrouter adds to the totals; a call whose requests all raise adds none
UnitRequest(u) ==
    /\ unit_pc[u] = "request"
    /\ unit_pc' = [unit_pc EXCEPT ![u] = IF unit_work[u] = "name" THEN "usage"
                                         ELSE "return"]
    /\ UNCHANGED <<unit_reg, ai_extractions_count, ai_success_count, total_requests,
                   rmw_units, all_contacts, otherThanFan>>

\* "self.total_requests += 1" (and the token and cost totals beside it): the load
LoadUsage(u) ==
    /\ unit_pc[u] = "usage"
    /\ unit_reg' = [unit_reg EXCEPT ![u] = total_requests]
    /\ unit_pc' = [unit_pc EXCEPT ![u] = "used"]
    /\ UNCHANGED <<ai_extractions_count, ai_success_count, total_requests, rmw_units,
                   all_contacts, otherThanFan>>

\* "self.total_requests += 1": the store
StoreUsage(u) ==
    /\ unit_pc[u] = "used"
    /\ total_requests' = unit_reg[u] + 1
    /\ rmw_units' = [rmw_units EXCEPT !["total_requests"] = @ \cup {u}]
    /\ unit_pc' = [unit_pc EXCEPT ![u] = "success"]
    /\ UNCHANGED <<unit_reg, ai_extractions_count, ai_success_count, all_contacts,
                   otherThanFan>>

\* "self.ai_success_count += 1" under "if ai_result.get('name') and not
\* contact.get('name')": the load
LoadSuccess(u) ==
    /\ unit_pc[u] = "success"
    /\ unit_reg' = [unit_reg EXCEPT ![u] = ai_success_count]
    /\ unit_pc' = [unit_pc EXCEPT ![u] = "succeeded"]
    /\ UNCHANGED <<ai_extractions_count, ai_success_count, total_requests, rmw_units,
                   all_contacts, otherThanFan>>

\* "self.ai_success_count += 1": the store
StoreSuccess(u) ==
    /\ unit_pc[u] = "succeeded"
    /\ ai_success_count' = unit_reg[u] + 1
    /\ rmw_units' = [rmw_units EXCEPT !["ai_success_count"] = @ \cup {u}]
    /\ unit_pc' = [unit_pc EXCEPT ![u] = "return"]
    /\ UNCHANGED <<unit_reg, ai_extractions_count, total_requests, all_contacts,
                   otherThanFan>>

\* scrape_single_url returns: the future is done and the worker is free
UnitReturn(u) ==
    /\ unit_pc[u] = "return"
    /\ unit_pc' = [unit_pc EXCEPT ![u] = "finished"]
    /\ UNCHANGED <<unit_reg, ai_extractions_count, ai_success_count, total_requests,
                   rmw_units, all_contacts, otherThanFan>>

\* the thread of scrape_multiple_urls: "all_contacts.extend(contacts)"
CollectUnit(u) ==
    /\ unit_pc[u] = "finished"
    /\ all_contacts' = all_contacts \o unit_result(u)
    /\ unit_pc' = [unit_pc EXCEPT ![u] = "collected"]
    /\ UNCHANGED <<unit_reg, ai_extractions_count, ai_success_count, total_requests,
                   rmw_units, otherThanFan>>

NextFan ==
    \E u \in Units :
        \/ UnitStart(u)
        \/ LoadExtractions(u)
        \/ StoreExtractions(u)
        \/ UnitRequest(u)
        \/ LoadUsage(u)
        \/ StoreUsage(u)
        \/ LoadSuccess(u)
        \/ StoreSuccess(u)
        \/ UnitReturn(u)
        \/ CollectUnit(u)

SpecFan == InitFan /\ [][NextFan]_vars

\* ------------------------------------------------------------------------
\* Specification: discover_urls_via_sitemap, one request per step
\* ------------------------------------------------------------------------

SitemapAnswers ==
    { SitemapAnswer("raises", <<>>, <<>>),
      SitemapAnswer("non_200", <<>>, <<>>),
      SitemapAnswer("no_results", <<>>, <<>>),
      SitemapAnswer("no_xml", <<>>, <<>>),
      SitemapAnswer("xml", << <<" ">> >>, <<>>),
      SitemapAnswer("xml", << <<" ","h","t","t","p","s",":","/","/","u",".","e","d","u","/","s","t","a","f","f"," ">>,
                              <<"h","t","t","p","s",":","/","/","u",".","e","d","u","/","a">> >>, <<>>),
      SitemapAnswer("xml", <<>>, << <<"/","p","e","o","p","l","e">>, <<"h","t","t","p","s",":","/","/","u",".","e","d","u","/","t","e","a","m">>,
                                    <<"s","e","e"," ","h","t","t","p">>, <<"N","a","m","e">> >>),
      SitemapAnswer("xml", <<>>, << <<"N","a","m","e">> >>) }

InitSitemap ==
    /\ IdleClean
    /\ IdleDedup
    /\ IdleExtract
    /\ IdleDiscover
    /\ scraping_state = InitialScrapingState
    /\ IdleApp
    /\ IdleJob
    /\ IdleLlm
    /\ IdleFan
    /\ IdleBatches
    /\ sitemap_answers \in [DOMAIN sitemap_locations -> SitemapAnswers]
    /\ sitemap_pc = "fetching"
    /\ sitemap_path = 1
    /\ found_urls = <<>>
    /\ sitemap_fetched = <<>>
    /\ sitemap_return = <<>>

otherThanSitemap == <<cleanVars, dedupVars, extractVars, discoverVars, scraping_state,
                      appVars, jobVars, llmVars, fanVars, sitemap_answers,
                      batchVars>>

\* one turn of "for sitemap_path in sitemap_locations": the request and what is
\* done with its answer; anything that raises is caught and the loop continues
SitemapFetch ==
    /\ sitemap_pc = "fetching"
    /\ sitemap_path <= Len(sitemap_locations)
    /\ sitemap_fetched' = Append(sitemap_fetched, sitemap_locations[sitemap_path])
    /\ found_urls' = sitemap_path_step(found_urls, sitemap_answers[sitemap_path],
                                     BaseDomain).urls
    /\ IF sitemap_path_step(found_urls, sitemap_answers[sitemap_path], BaseDomain).returns
       THEN /\ sitemap_pc' = "returned"
            /\ sitemap_return' = found_urls'
            /\ UNCHANGED sitemap_path
       ELSE /\ sitemap_path' = sitemap_path + 1
            /\ UNCHANGED <<sitemap_pc, sitemap_return>>
    /\ UNCHANGED otherThanSitemap

\* the loop is over: "No sitemap found", "return []"
SitemapNotFound ==
    /\ sitemap_pc = "fetching"
    /\ sitemap_path > Len(sitemap_locations)
    /\ sitemap_pc' = "returned"
    /\ sitemap_return' = <<>>
    /\ UNCHANGED <<sitemap_path, found_urls, sitemap_fetched, otherThanSitemap>>

NextSitemap ==
    \/ SitemapFetch
    \/ SitemapNotFound

SpecSitemap == InitSitemap /\ [][NextSitemap]_vars

\* ------------------------------------------------------------------------
\* Specification: phase 3 of discover_urls, the AI re-scoring, with one step
\* for each batch analyze_urls_for_contacts sends
\* ------------------------------------------------------------------------

\* the most batches one run sends
MaxBatches == 3

\* url_scores after the sort of phase 2: high scored items, then medium, low
\* and unscored ones
ScoredItem(i, high, uncertain) ==
    [url |-> HTTPS \o BaseDomain \o <<"/","p">> \o str_int(i),
     score |-> IF i <= high THEN 80
               ELSE IF 3 * (i - high) <= uncertain THEN 40
               ELSE IF 3 * (i - high) <= 2 * uncertain THEN 10
               ELSE 0]

RescoreInputs ==
    { [i \in 1..(high + uncertain) |-> ScoredItem(i, high, uncertain)] :
        high \in {0, 2},
        uncertain \in {0, 3, url_batch_size, url_batch_size + 1,
                       (MaxBatches - 1) * url_batch_size + 2} }

RescoreStyles == {"all_high", "mixed", "first_only", "unasked", "bad_likelihood"}

InitRescore ==
    /\ IdleClean
    /\ IdleDedup
    /\ IdleExtract
    /\ scraping_state = InitialScrapingState
    /\ IdleApp
    /\ IdleJob
    /\ IdleLlm
    /\ IdleFan
    /\ IdleSitemap
    /\ max_pages = 30
    /\ max_discovery = 2000
    /\ enable_deep_crawl = FALSE
    /\ deep_crawl_requests = 0
    /\ enable_ai_url_filter = TRUE
    /\ sitemap_result = SitemapResult(FALSE, <<>>)
    /\ ai_enabled \in BOOLEAN
    /\ llm_style \in RescoreStyles
    /\ discover_pc = "ai"
    /\ discovered_urls = {}
    /\ urls_to_process = <<>>
    /\ processed_urls = {}
    /\ max_discovery_requests = 0
    /\ discovery_count = 0
    /\ url_scores \in RescoreInputs
    /\ ai_results = <<>>
    /\ prioritized_urls = item_urls(url_scores)
    /\ final_urls = <<>>
    /\ discovery_log = <<>>
    /\ fetch_attempts = 0
    /\ fetch_failed = FALSE
    /\ fetched_after_failure = FALSE
    /\ skipped_entries = 0
    /\ keyword_prioritized_urls = prioritized_urls
    /\ ai_outcome = "off"
    /\ pending_batches = <<>>
    /\ sent_batches = <<>>
    /\ batch_failed = <<>>

otherThanRescore == <<cleanVars, dedupVars, extractVars, discoverParams, crawlVars,
                      final_urls, keyword_prioritized_urls, scraping_state, appVars,
                      jobVars, llmVars, fanVars, sitemapVars>>

\* "if ai_extractor.enabled:", "if uncertain_urls:", and the call of
\* analyze_urls_for_contacts up to its first request
RescoreStart ==
    /\ discover_pc = "ai"
    /\ IF ~ai_enabled
       THEN /\ ai_outcome' = "unavailable"
            /\ discover_pc' = "return"
            /\ UNCHANGED pending_batches
       ELSE IF uncertain_items(url_scores) = <<>>
       THEN /\ ai_outcome' = "no_uncertain"
            /\ discover_pc' = "return"
            /\ UNCHANGED pending_batches
       ELSE /\ pending_batches' = url_batches(item_urls(uncertain_items(url_scores)))
            /\ discover_pc' = "ai_batches"
            /\ UNCHANGED ai_outcome
    /\ UNCHANGED <<url_scores, ai_results, prioritized_urls, sent_batches, batch_failed,
                   otherThanRescore>>

\* one batch: its request with its retries, "results.extend(batch_results)";
\* a batch whose attempts all fail gives []
BatchRequest(fails) ==
    /\ discover_pc = "ai_batches"
    /\ pending_batches # <<>>
    /\ sent_batches' = Append(sent_batches, Head(pending_batches))
    /\ batch_failed' = Append(batch_failed, fails)
    /\ ai_results' = ai_results \o (IF fails THEN <<>>
                                    ELSE llm_reply(llm_style, Head(pending_batches)))
    /\ pending_batches' = Tail(pending_batches)
    /\ UNCHANGED <<url_scores, prioritized_urls, ai_outcome, discover_pc, otherThanRescore>>

rescored_items(items, results) ==
    high_priority(items) \o rescore_loop(uncertain_items(items), results).items

\* "if ai_results:" and the re-scoring, as in AiUrlFilter
RescoreApply ==
    /\ discover_pc = "ai_batches"
    /\ pending_batches = <<>>
    /\ IF ai_results = <<>>
       THEN /\ ai_outcome' = "no_results"
            /\ UNCHANGED <<url_scores, prioritized_urls>>
       ELSE IF \E i \in 1..Len(ai_results) : ~ai_results[i].has_url
       THEN /\ ai_outcome' = "raised"
            /\ UNCHANGED <<url_scores, prioritized_urls>>
       ELSE IF rescore_loop(uncertain_items(url_scores), ai_results).raised
       THEN /\ ai_outcome' = "raised"
            /\ url_scores' = rescored_items(url_scores, ai_results)
            /\ UNCHANGED prioritized_urls
       ELSE /\ ai_outcome' = "applied"
            /\ url_scores' = rescored_items(url_scores, ai_results)
            /\ prioritized_urls' = item_urls(sort_by_score_desc(url_scores'))
    /\ discover_pc' = "return"
    /\ UNCHANGED <<ai_results, batchVars, otherThanRescore>>

NextRescore ==
    \/ RescoreStart
    \/ \E fails \in BOOLEAN : BatchRequest(fails)
    \/ RescoreApply

SpecRescore == InitRescore /\ [][NextRescore]_vars

\* ------------------------------------------------------------------------
\* Properties of contact extraction
\* ------------------------------------------------------------------------

\* C1: on every page and along every extraction path of either scraper, no
\* emitted contact has both an empty/null email and an empty/null phone.
C1_NoContactWithoutEmailOrPhone ==
    \A i \in 1..Len(contacts) :
        truthy(contacts[i].email) \/ truthy(contacts[i].phone)

\* C1 witness: the container strategy of OxylabsScraper met two elements,
\* dropped the one with neither field and emitted the other, which has a
\* phone and no email
C1_Witness ==
    /\ scraper = "oxylabs"
    /\ extract_pc = "done"
    /\ \E s \in page.selections :
          /\ Len(s.elements) = 2
          /\ \E i \in 1..2 :
                LET c == extract_contact_from_element(s.elements[i], page.source_url)
                IN  ~truthy(c.email) /\ ~truthy(c.phone)
    /\ Len(contacts) = 1
    /\ ~truthy(contacts[1].email)
    /\ truthy(contacts[1].phone)

\* ------------------------------------------------------------------------
\* Properties of cleaning and de-duplication
\* ------------------------------------------------------------------------

\* the cleaned form of every input record, in input order
CleanedInputs ==
    [i \in 1..Len(all_contacts) |-> clean_contact_data(all_contacts[i])]

\* index of the first input record whose cleaned email is e
FirstWithEmail(e) ==
    CHOOSE i \in 1..Len(all_contacts) :
        /\ CleanedInputs[i].email = e
        /\ \A j \in 1..(i - 1) : CleanedInputs[j].email # e

\* C2: clean_and_deduplicate_contacts returns exactly one record per distinct
\* non-null cleaned email; that record is the cleaned form of the first input
\* record carrying the email; the output keeps first-occurrence order.
C2_FirstSeenWins ==
    dedup_done =>
        /\ \A i \in 1..Len(all_contacts) :
              LET e == CleanedInputs[i].email
              IN  e # None =>
                    /\ Cardinality({k \in 1..Len(unique_contacts) :
                                       unique_contacts[k].email = e}) = 1
                    /\ \E k \in 1..Len(unique_contacts) :
                          unique_contacts[k] = CleanedInputs[FirstWithEmail(e)]
        /\ \A j, k \in 1..Len(unique_contacts) :
              j < k => FirstWithEmail(unique_contacts[j].email)
                         < FirstWithEmail(unique_contacts[k].email)

\* C2 witness: two input records share a cleaned email, differ in their other
\* fields, and the result holds at least two records
C2_Witness ==
    /\ dedup_done
    /\ Len(unique_contacts) >= 2
    /\ \E i, j \in 1..Len(all_contacts) :
          /\ i < j
          /\ CleanedInputs[i].email # None
          /\ CleanedInputs[i].email = CleanedInputs[j].email
          /\ CleanedInputs[i] # CleanedInputs[j]

NullEmailCount(records) ==
    Cardinality({i \in 1..Len(records) : records[i].email = None})

\* C3 (as claimed): every record whose cleaned email is null is kept by the
\* de-duplication step.
C3_NullEmailRecordsKept ==
    /\ dedup_done => NullEmailCount(unique_contacts) = NullEmailCount(CleanedInputs)
    /\ dedup_path = "scrapy" =>
          NullEmailCount(pipeline_items) = NullEmailCount(all_contacts)

AtCount(s) == Cardinality({i \in 1..Len(s) : s[i] = "@"})

\* local@domain: trimmed, lowercased, exactly one '@', both halves non-empty
CanonicalEmail(e) ==
    /\ isinstance_str(e)
    /\ str_strip(e) = e
    /\ str_lower(e) = e
    /\ AtCount(e) = 1
    /\ e[1] # "@"
    /\ e[Len(e)] # "@"

\* C4 (as claimed): the email of a cleaned record is null or a trimmed,
\* lowercased address with exactly one '@' and non-empty halves.
C4_CleanEmailCanonical ==
    clean_passes >= 1 => (contact.email = None \/ CanonicalEmail(contact.email))

\* C5: cleaning is idempotent: applying clean_contact_data to a cleaned record
\* leaves every field unchanged.
C5_CleanIdempotent == [][clean_passes >= 1 => contact' = contact]_vars

\* C5 witness: a record that cleaning changed (and kept an email and a phone
\* of) has been cleaned twice
C5_Witness ==
    /\ clean_passes = 2
    /\ contact # raw_contact
    /\ contact.email # None /\ contact.email # raw_contact.email
    /\ contact.phone # None /\ contact.phone # raw_contact.phone
    /\ contact.name # None /\ contact.name # raw_contact.name

\* ------------------------------------------------------------------------
\* Properties of discover_urls
\* ------------------------------------------------------------------------

\* the score an item of url_scores holds for a URL
item_score(url) ==
    url_scores[CHOOSE i \in 1..Len(url_scores) : url_scores[i].url = url].score

\* the score the returned ranking is based on: the keyword score, or the
\* LLM-adjusted score when the AI filtering was applied
final_score(url) ==
    IF ai_outcome = "applied" THEN item_score(url) ELSE keyword_score_of[url]

log_index(url) == CHOOSE i \in 1..Len(discovery_log) : discovery_log[i] = url

\* C6: the returned list has min(N, |S|) entries, each a distinct member of
\* the discovered set S, in non-increasing order of final score, and no URL
\* left out has a strictly higher final score than a returned one; N larger
\* than |S| returns all of S.
C6_ReturnsTopN ==
    discover_pc = "done" =>
        LET n == Len(final_urls)
            returned == Range(final_urls)
        IN  /\ n = IF max_pages < Cardinality(discovered_urls)
                   THEN max_pages ELSE Cardinality(discovered_urls)
            /\ returned \subseteq discovered_urls
            /\ Cardinality(returned) = n
            /\ \A i \in 1..(n - 1) :
                  final_score(final_urls[i]) >= final_score(final_urls[i + 1])
            /\ \A url \in discovered_urls \ returned :
                  final_score(url) <= final_score(final_urls[n])

\* C6 witness: an AI-adjusted ranking was cut to max_pages, it holds URLs of
\* different final scores, and a URL was left out
C6_Witness ==
    /\ discover_pc = "done"
    /\ ai_outcome = "applied"
    /\ Len(final_urls) = max_pages
    /\ max_pages < Cardinality(discovered_urls)
    /\ final_score(final_urls[1]) > final_score(final_urls[Len(final_urls)])
    /\ prioritized_urls # keyword_prioritized_urls

\* C7 (as claimed): URLs of equal final score appear in the ranked list in
\* the order in which they entered the discovered set.
C7_TiesInDiscoveryOrder ==
    discover_pc = "done" =>
        \A i, j \in 1..Len(prioritized_urls) :
            (i < j /\ final_score(prioritized_urls[i]) = final_score(prioritized_urls[j]))
                => log_index(prioritized_urls[i]) < log_index(prioritized_urls[j])

\* the score the re-scoring rule gives an analysed URL
expected_ai_score(url) ==
    LET entries == {i \in 1..Len(ai_results) : ai_results[i].url = url}
        last == ai_results[Max(entries)]
        boost == ai_boost(IF last.has_likelihood THEN last.likelihood ELSE 0)
    IN  IF entries = {} \/ keyword_score_of[url] >= 60 THEN keyword_score_of[url]
        ELSE IF boost > keyword_score_of[url] THEN boost
        ELSE keyword_score_of[url]

\* C8: with AI filtering requested, no URL is lost and no score is lowered;
\* an analysed URL with an entry gets the maximum of its keyword score and
\* its scaled likelihood; when the analysis is unavailable, returns nothing
\* or raises, the ranked list is the keyword-only ranked list.
C8_AiNeverLowersNorLoses ==
    (discover_pc = "done" /\ enable_ai_url_filter) =>
        /\ Len(prioritized_urls) = Cardinality(discovered_urls)
        /\ Range(prioritized_urls) = discovered_urls
        /\ \A i \in 1..Len(url_scores) :
              url_scores[i].score >= keyword_score_of[url_scores[i].url]
        /\ ai_outcome = "applied" =>
              \A url \in discovered_urls : item_score(url) = expected_ai_score(url)
        /\ ai_outcome # "applied" =>
              /\ prioritized_urls = keyword_prioritized_urls
              /\ final_urls = SubSeq(keyword_prioritized_urls, 1, Len(final_urls))

\* C8 witness: the analysis was applied; it raised one URL above its keyword
\* score and moved it, and it answered another URL with a likelihood below
\* its keyword score
C8_Witness ==
    /\ discover_pc = "done"
    /\ ai_outcome = "applied"
    /\ prioritized_urls # keyword_prioritized_urls
    /\ \E url \in discovered_urls : item_score(url) > keyword_score_of[url]
    /\ \E i \in 1..Len(ai_results) :
          /\ ai_results[i].url \in discovered_urls
          /\ ai_boost(ai_results[i].likelihood) < keyword_score_of[ai_results[i].url]

\* C9: with a deep-crawl budget of 0 the crawl loop fetches nothing and the
\* discovered set holds the start URL, the pattern URLs and sitemap URLs only.
C9_ZeroBudgetNoFetch ==
    (~enable_deep_crawl \/ deep_crawl_requests = 0) =>
        /\ fetch_attempts = 0
        /\ processed_urls = {}
        /\ discover_pc \in {"crawl", "ai", "return", "done"} =>
              /\ {StartUrl} \cup Range(discover_urls_by_patterns(BaseDomain, {}))
                     \subseteq discovered_urls
              /\ discovered_urls \subseteq
                     {StartUrl} \cup Range(discover_urls_by_patterns(BaseDomain, {}))
                     \cup {url \in Range(sitemap_result.urls) : url_netloc(url) = BaseDomain}

\* C9 witness: deep crawl switched on with 0 requests, a queue holding
\* sitemap and pattern URLs, and the run finished without a fetch
C9_Witness ==
    /\ discover_pc = "done"
    /\ enable_deep_crawl
    /\ deep_crawl_requests = 0
    /\ Len(urls_to_process) > Len(patterns) + 1
    /\ fetch_attempts = 0

\* C10: the crawl loop makes at most min(deep_crawl_requests, 100) fetch
\* attempts; every attempt, failed or not, counts against the budget, and a
\* skipped queue entry does not: the budget counter equals the attempts made.
C10_FetchAttemptsWithinBudget ==
    /\ fetch_attempts <= (IF deep_crawl_requests < 100 THEN deep_crawl_requests ELSE 100)
    /\ discovery_count = fetch_attempts

\* C10 witness: 150 requests asked for; the loop stopped at 100 attempts with
\* entries left in the queue, after a failed fetch and a skipped entry
C10_Witness ==
    /\ discover_pc = "done"
    /\ deep_crawl_requests = 150
    /\ fetch_attempts = 100
    /\ urls_to_process # <<>>
    /\ fetch_failed
    /\ skipped_entries >= 1

\* ------------------------------------------------------------------------
\* Properties of a scraping job
\* ------------------------------------------------------------------------

\* the contacts of the units that returned, in the order of submission
RECURSIVE contacts_in_submission_order(_)
contacts_in_submission_order(n) ==
    IF n = 0 THEN <<>>
    ELSE contacts_in_submission_order(n - 1)
         \o (IF future_result(n).raised THEN <<>> ELSE future_result(n).contacts)

\* C11: for fixed per-URL results, the cleaned and de-duplicated list a job
\* ends with holds the same records whatever the order in which the units
\* complete: the records it would hold had they completed in the order of
\* submission.
C11_SameRecordsForEveryOrder ==
    (job_pc = "ended" /\ scraping_state.status = "Complete") =>
        Range(unique_contacts)
            = Range(clean_and_deduplicate_contacts(
                        contacts_in_submission_order(Len(future_state))))

\* the contacts of the units that returned, in the order order
RECURSIVE contacts_in_order(_)
contacts_in_order(order) ==
    IF order = <<>> THEN <<>>
    ELSE (IF future_result(Head(order)).raised THEN <<>>
          ELSE future_result(Head(order)).contacts)
         \o contacts_in_order(Tail(order))

\* the fan-out loop of scrape_multiple_urls is over
loop_finished == job_pc \in {"count", "finally", "ended"}

\* C12: a failed request or an exception in one unit does not keep any other
\* URL from being processed: no future is collected twice, every collected
\* future is counted, the accumulated list is the contacts of the units that
\* returned, and when the loop is over every submitted URL has been run and
\* collected and completed is the number of URLs.
C12_FailuresAreIsolated ==
    /\ completed = Len(collected)
    /\ \A i, j \in 1..Len(collected) : collected[i] = collected[j] => i = j
    /\ job_pc \in {"collect", "count", "finally", "ended"} =>
           all_contacts = contacts_in_order(collected)
    /\ loop_finished =>
           /\ completed = Len(job_urls)
           /\ DOMAIN future_state = 1..Len(job_urls)
           /\ \A i \in 1..Len(job_urls) :
                  /\ future_state[i] = "finished"
                  /\ i \in Range(collected)
                  /\ \A c \in Range(future_result(i).contacts) : c \in Range(all_contacts)

\* C12 witness: three URLs; the first future collected raised, the request
\* of another failed, and the contact of the third is in the result
C12_Witness ==
    /\ job_pc = "ended"
    /\ Len(job_urls) = 3
    /\ future_result(collected[1]).raised
    /\ \E i \in 1..3 : page_result(job_urls[i]).kind = "fetch_failed"
    /\ Len(all_contacts) = 1
    /\ completed = 3

\* C13: after /api/stop has accepted a stop request, no unit whose request
\* had not started when the stop request was handled is started.
C13_NoUnitStartedAfterStop ==
    stop_response = "accepted" => started_after_stop = {}

\* ------------------------------------------------------------------------
\* Properties of the web service
\* ------------------------------------------------------------------------

\* the job threads that have started and not ended
live_threads == {h \in DOMAIN thread_pc : thread_pc[h] \notin {"none", "ended"}}

\* thread h has called scrape_multiple_urls
has_dispatched(h) == thread_pc[h] \in {"count", "finally", "ended"}

\* thread h takes a step that reports urls_discovered for its URL list
reports_discovered(h) ==
    \/ thread_pc[h] = "discover" /\ thread_pc'[h] = "scrape"
    \/ thread_pc[h] = "count" /\ thread_pc'[h] = "finally"

\* C14 (state part): the URLs a job gives to the worker pool are the list
\* discover_urls returned to it, in its order: a list of at most max_pages
\* URLs without a repetition, taken from the ranked lists discover_urls can
\* return for the request.
C14_DispatchedAreDiscovered ==
    \A h \in DOMAIN thread_pc :
        /\ has_dispatched(h) =>
               /\ thread_submitted[h] = thread_urls[h]
               /\ thread_urls[h] \in discovered_lists(request_url(start_request[h]),
                                                      start_request[h].max_pages)
        /\ Len(thread_urls[h]) <= start_request[h].max_pages
        /\ \A i, j \in 1..Len(thread_urls[h]) :
               thread_urls[h][i] = thread_urls[h][j] => i = j

C15_AtMostOneJob == Cardinality(live_threads) <= 1

\* ------------------------------------------------------------------------
\* More properties of discover_urls
\* ------------------------------------------------------------------------

\* C16: whatever set of discovered URLs discover_urls passes to it,
\* discover_urls_by_patterns returns a list that is not empty.
C16_PatternListNonEmpty ==
    discover_pc = "patterns" =>
        discover_urls_by_patterns(BaseDomain, discovered_urls) # <<>>

\* ------------------------------------------------------------------------
\* More properties of contact extraction
\* ------------------------------------------------------------------------

\* the mailto: links the loop of extract_contacts_from_html hands to
\* extract_contact_from_context
accepted_links(mailto_links) ==
    SelectSeq(mailto_links,
              LAMBDA l : truthy(mailto_email(l)) /\ str_contains(mailto_email(l), <<"@">>))

\* the texts under one parent that the heuristics accept as a name
parent_names(parent) ==
    {parent.headings[k] : k \in {j \in 1..Len(parent.headings) :
                                    /\ parent.headings[j] # None
                                    /\ truthy(parent.headings[j])
                                    /\ looks_like_name(parent.headings[j])}}
    \cup {parent.tags[k].text : k \in {j \in 1..Len(parent.tags) :
                /\ \E x \in name_classes : str_contains(str_lower(parent.tags[j].classes), x)
                /\ truthy(parent.tags[j].text)
                /\ looks_like_name(parent.tags[j].text)}}

\* the heuristic matches in the three levels above a mailto: link
heuristic_names(ancestors) ==
    UNION {parent_names(ancestors[k]) : k \in {j \in 1..Len(ancestors) : j <= 3}}

\* the rule for the name of the contact made from one link
name_rule(name, fallback_name, matches) ==
    fallback_name # None =>
        /\ matches = {} => name = fallback_name
        /\ matches # {} => name \in matches

\* the contacts of the page are those of its mailto: links
contacts_from_mailto ==
    /\ scraper = "oxylabs"
    /\ extract_pc = "done"
    /\ page.known_format
    /\ structural_contacts(page) = <<>>
    /\ accepted_links(page.mailto_links) # <<>>

\* C17: a contact made from a mailto: link whose address gives a fallback
\* name ends with that name when no heading and no name-classed element in
\* the three levels above the link is accepted as a name, and with one of
\* the accepted texts when there is one.
C17_FallbackNameOnlyWithoutMatch ==
    contacts_from_mailto =>
        /\ Len(contacts) = Len(accepted_links(page.mailto_links))
        /\ \A i \in 1..Len(contacts) :
               name_rule(contacts[i].name,
                         username_fallback_name(contacts[i].email),
                         heuristic_names(accepted_links(page.mailto_links)[i].ancestors))

\* C17 witness: AI extraction is on; one contact has the name of the heading
\* three levels up and not "Al Bo", the other keeps the fallback "Ed Li"
\* although a heading four levels up holds a name
C17_Witness ==
    /\ contacts_from_mailto
    /\ use_ai
    /\ Len(contacts) = 2
    /\ contacts[1].email = <<"a","l",".","b","o","@","u",".","e","d">>
    /\ contacts[1].name = <<"A","m","y"," ","P","o","e">>
    /\ contacts[2].name = <<"E","d"," ","L","i">>

\* ------------------------------------------------------------------------
\* Properties of the crawl loop of discover_urls
\* ------------------------------------------------------------------------

\* the crawl loop has ended
crawl_over == discover_pc \in {"ai", "return", "done"}

\* a step of the crawl loop that requests the URL at the head of the queue
fetches_head == discover_pc = "crawl" /\ fetch_attempts' = fetch_attempts + 1

\* C18 (state part): every request is for another URL, and the crawl loop
\* has not ended while the queue holds an entry and both limits allow a
\* request, whether or not a fetch has failed.
C18_CrawlEndsOnlyAtItsLimits ==
    /\ fetch_attempts = Cardinality(processed_urls)
    /\ crawl_over =>
           \/ urls_to_process = <<>>
           \/ Cardinality(discovered_urls) >= max_discovery
           \/ discovery_count >= max_discovery_requests

\* C18: a failed fetch neither makes the crawl request the URL again nor ends
\* the crawl: no URL is requested twice, a requested URL leaves the queue
\* entry it was taken from, and the loop goes on until the queue is empty or
\* a limit is reached.
C18_FailureNeitherRetriesNorStops ==
    /\ []C18_CrawlEndsOnlyAtItsLimits
    /\ [][fetches_head =>
              /\ Head(urls_to_process) \notin processed_urls
              /\ processed_urls' = processed_urls \cup {Head(urls_to_process)}]_vars

\* C18 witness: a fetch failed, fetches were made after it, and the crawl
\* ended when the budget of 3 requests was used up
C18_Witness ==
    /\ discover_pc = "done"
    /\ fetched_after_failure
    /\ deep_crawl_requests = 3
    /\ fetch_attempts = 3
    /\ urls_to_process # <<>>

\* the URLs a run can discover that hold one of the staff keywords, in any
\* case
keyword_urls ==
    {url \in KnownUrls : \E k \in staff_keywords : str_contains(str_lower(url), k)}

has_staff_keyword(url) == url \in keyword_urls

\* the URLs a fetch step adds to discovered_urls
new_urls == discovered_urls' \ discovered_urls

\* C19 (state part): once the crawl loop is reached, no keyword URL stands
\* behind a URL without keyword in the queue.
C19_KeywordUrlsFirst ==
    discover_pc \in {"crawl", "ai", "return", "done"} =>
        \A i \in 1..(Len(urls_to_process) - 1) :
            has_staff_keyword(urls_to_process[i + 1]) => has_staff_keyword(urls_to_process[i])

\* C19 (step part): a fetch step puts the new keyword URLs in front of the
\* rest of the queue and the other new URLs behind it, and it requests a URL
\* without keyword only when the queue holds no unprocessed keyword URL.
C19_FetchStep ==
    fetches_head =>
        LET front == Cardinality({u \in new_urls : has_staff_keyword(u)})
            rest  == Len(urls_to_process) - 1
        IN  /\ Len(urls_to_process') = front + rest + Cardinality(new_urls) - front
            /\ \A i \in 1..front :
                   urls_to_process'[i] \in new_urls /\ has_staff_keyword(urls_to_process'[i])
            /\ SubSeq(urls_to_process', front + 1, front + rest) = Tail(urls_to_process)
            /\ \A i \in (front + rest + 1)..Len(urls_to_process') :
                   urls_to_process'[i] \in new_urls /\ ~has_staff_keyword(urls_to_process'[i])
            /\ ~has_staff_keyword(Head(urls_to_process)) =>
                   \A i \in 1..Len(urls_to_process) :
                       has_staff_keyword(urls_to_process[i]) =>
                           urls_to_process[i] \in processed_urls

\* C19: during the link crawl new keyword URLs go to the front of the queue
\* and all others to the back; the queue is always keyword URLs followed by
\* URLs without keyword, and no URL without keyword is requested while an
\* unprocessed keyword URL is in the queue.
C19_KeywordUrlsAreFetchedFirst ==
    /\ []C19_KeywordUrlsFirst
    /\ [][C19_FetchStep]_vars

\* C19 witness: the one request of the run read a page whose links gave a
\* keyword URL, now first in the queue, and URLs without keyword, now last
C19_Witness ==
    /\ discover_pc = "done"
    /\ fetch_attempts = 1
    /\ str_endswith(Head(urls_to_process), <<"/","P","e","o","p","l","e","?","i","d","=","7">>)
    /\ str_endswith(urls_to_process[Len(urls_to_process)], <<"/","d","r","-","l","e","e">>)
    /\ ~has_staff_keyword(urls_to_process[Len(urls_to_process)])

\* the URLs a run can meet whose host is the host of the start URL
same_host_urls == {url \in KnownUrls : url_netloc(url) = url_netloc(StartUrl)}

\* the entries a step appends to the record of additions to discovered_urls
logged_additions == SubSeq(discovery_log', Len(discovery_log) + 1, Len(discovery_log'))

\* C20 (state part): every discovered URL other than the start URL has the
\* host of the start URL.
C20_DiscoveredOnStartHost ==
    discovered_urls \ {StartUrl} \subseteq same_host_urls

\* C20 (step part): the URL a fetch step requests is on the host of the
\* start URL; every URL the step adds is the URL of a link of the fetched
\* page without its fragment, holds no '#', is on that host, was not in
\* discovered_urls before and is added once.
C20_FetchStep ==
    fetches_head =>
        /\ Head(urls_to_process) \in same_host_urls \cup {StartUrl}
        /\ url_netloc(Head(urls_to_process)) = BaseDomain
        /\ Range(logged_additions) = new_urls
        /\ \A i, j \in 1..Len(logged_additions) :
               logged_additions[i] = logged_additions[j] => i = j
        /\ \A u \in new_urls :
               /\ u \notin discovered_urls
               /\ u \in same_host_urls
               /\ "#" \notin Range(u)
               /\ \E i \in 1..Len(page_links(Head(urls_to_process))) :
                      LET l == page_links(Head(urls_to_process))[i]
                      IN  u = l.scheme \o <<":","/","/">> \o l.netloc \o l.path
                              \o (IF l.query = <<>> THEN <<>> ELSE <<"?">> \o l.query)

\* C20: in every state of discover_urls the discovered URLs other than the
\* start URL are on the host of the start URL; a URL added by the link crawl
\* has no fragment and was not discovered before; no request goes to another
\* host.
C20_SameHostOnly ==
    /\ []C20_DiscoveredOnStartHost
    /\ [][C20_FetchStep]_vars

\* C20 witness: the third request read a page with two links to /bio/bo with
\* fragments and a link to another host; the run ended with /bio/bo
\* discovered once, after links from a sitemap that also lists another host
C20_Witness ==
    /\ discover_pc = "done"
    /\ fetch_attempts = 3
    /\ sitemap_result = MixedSitemap
    /\ (HTTPS \o BaseDomain \o <<"/","b","i","o","/","b","o">>) \in discovered_urls
    /\ Cardinality({i \in 1..Len(discovery_log) :
                       discovery_log[i] = HTTPS \o BaseDomain \o <<"/","b","i","o","/","b","o">>}) = 1
    /\ (HTTPS \o BaseDomain \o <<"/","b","i","o","/","a","n","n">>) \in discovered_urls

\* ------------------------------------------------------------------------
\* Properties of the extraction cascade
\* ------------------------------------------------------------------------

\* the tier that follows a tier of the cascade
next_tier(tier) ==
    IF scraper = "spider"
    THEN (IF tier = "containers" THEN "rows" ELSE "page")
    ELSE (IF tier = "containers" THEN "mailto" ELSE "text")

\* a step that ends a tier other than the last one
ends_tier ==
    /\ extract_pc' # extract_pc
    /\ \/ scraper = "spider" /\ extract_pc \in {"containers", "rows"}
       \/ scraper = "oxylabs" /\ page.known_format /\ extract_pc \in {"containers", "mailto"}

\* C21: in both scrapers the tiers run in a fixed order, and the tier after
\* one that has ended runs exactly when no valid candidate (a record with an
\* address or a number) has been produced so far; otherwise the extraction
\* is over.
C21_LaterTierIffNoCandidate ==
    [][ends_tier =>
           /\ extract_pc' \in {next_tier(extract_pc), "done"}
           /\ extract_pc' = next_tier(extract_pc) <=> contacts' = <<>>]_vars

\* ------------------------------------------------------------------------
\* Properties of the AI step of extract_contact_from_context
\* ------------------------------------------------------------------------

\* the contact the heuristics give for the i-th accepted mailto: link
heuristic_of(i) ==
    heuristic_contact(accepted_links(page.mailto_links)[i],
                      mailto_email(accepted_links(page.mailto_links)[i]),
                      page.source_url)

\* final keeps what the heuristics found: fields the AI never writes are
\* equal, and so is every field it may fill that was not empty
keeps_heuristic_values(final, heuristic) ==
    /\ final.email = heuristic.email
    /\ final.university = heuristic.university
    /\ final.source_url = heuristic.source_url
    /\ final.scraped_date = heuristic.scraped_date
    /\ truthy(heuristic.name) => final.name = heuristic.name
    /\ truthy(heuristic.designation) => final.designation = heuristic.designation
    /\ truthy(heuristic.phone) => final.phone = heuristic.phone
    /\ truthy(heuristic.department) => final.department = heuristic.department

\* C22: whatever the AI answers, a contact made from a mailto: link has the
\* heuristic value in every field the heuristics filled, and its email,
\* university and source_url are those set before the AI step.
C22_AiFillsEmptyFieldsOnly ==
    contacts_from_mailto =>
        \A i \in 1..Len(contacts) : keeps_heuristic_values(contacts[i], heuristic_of(i))

\* C22 witness: the AI was asked and gave its name, which was missing, while
\* its answer 'Dean' did not replace the job title the heuristics had found
C22_Witness ==
    /\ contacts_from_mailto
    /\ use_ai
    /\ ai_success_count = 1
    /\ contacts[1].name = <<"I","a","n"," ","K","a","y">>
    /\ ~truthy(heuristic_of(1).name)
    /\ contacts[1].designation = <<"S","e","n","i","o","r"," ","L","e","c","t","u","r","e","r">>
    /\ accepted_links(page.mailto_links)[1].ai_result.designation = <<"D","e","a","n">>

\* ------------------------------------------------------------------------
\* The retry loop of the language-model calls
\* ------------------------------------------------------------------------

llm_returned == llm_pc \in {"returned", "done"}

every_attempt_failed ==
    /\ llm_responses # <<>>
    /\ \A i \in 1..Len(llm_responses) : llm_responses[i] # "answer"

\* C23: extract_contact_info makes at most max_retries + 1 requests (3 with the
\* default) and has stopped when it made that many, no exception leaves it,
\* when every attempt failed it returns the empty result, and after an empty
\* result the contact of extract_contact_from_context is the heuristic contact.
C23_BoundedRetriesThenHeuristics ==
    llm_call.kind = "contact" =>
        /\ Len(llm_responses) <= llm_call.max_retries + 1
        /\ llm_call.max_retries = default_max_retries
              => Len(llm_responses) <= default_max_retries + 1
        /\ Len(llm_responses) = llm_call.max_retries + 1 => llm_returned
        /\ ~llm_result.raised
        /\ llm_returned /\ every_attempt_failed => llm_result.empty
        /\ llm_pc = "done" /\ llm_result.empty => llm_contact = llm_call.contact

C23_Witness ==
    /\ llm_call.kind = "contact"
    /\ llm_call.max_retries = default_max_retries
    /\ llm_responses = <<"timeout", "non_200", "not_object">>
    /\ llm_pc = "done"
    /\ llm_result.empty
    /\ truthy(llm_call.contact.designation)
    /\ llm_contact = llm_call.contact

\* C24: every kind of failed request, content that is no JSON included, is
\* retried: a call whose attempts all failed returns only after
\* max_retries + 1 requests, in extract_contact_info and in
\* analyze_urls_for_contacts alike.
C24_EveryFailureIsRetried ==
    llm_returned /\ every_attempt_failed
        => Len(llm_responses) = llm_call.max_retries + 1

\* ------------------------------------------------------------------------
\* The counters the worker threads share
\* ------------------------------------------------------------------------

\* C25: besides the result collection no shared variable is read-modified-
\* written by two units of the fan-out: each of the scraper's and the
\* extractor's counters is updated by at most one unit.
C25_NoCounterSharedByUnits ==
    \A v \in SharedCounters : Cardinality(rmw_units[v]) <= 1

\* C30: the AI successes counted never exceed the AI extractions counted.
C30_SuccessesWithinExtractions == ai_success_count <= ai_extractions_count

\* ------------------------------------------------------------------------
\* The sitemap paths
\* ------------------------------------------------------------------------

\* the entries the answer for one path yields: its <loc> texts, and the URLs
\* of its table cells when it has no <loc> text
path_entries(answer) ==
    IF answer.kind # "xml" THEN <<>>
    ELSE IF loc_entries(answer.locs) # <<>> THEN loc_entries(answer.locs)
    ELSE cell_entries(answer.cells, BaseDomain)

yielding_paths ==
    {i \in DOMAIN sitemap_answers : path_entries(sitemap_answers[i]) # <<>>}

first_yielding_path == CHOOSE i \in yielding_paths : \A j \in yielding_paths : i <= j

\* C26: the sitemap paths are requested in the order of the list; a path that
\* fails or yields no entry only moves the loop to the next one; no path is
\* requested after the first that yields an entry; the list returned holds
\* the entries of that one path, and is empty when no path yields an entry.
C26_FirstYieldingPathOnly ==
    /\ sitemap_fetched = SubSeq(sitemap_locations, 1, Len(sitemap_fetched))
    /\ \A i \in 1..(Len(sitemap_fetched) - 1) : path_entries(sitemap_answers[i]) = <<>>
    /\ sitemap_pc = "fetching"
          => /\ sitemap_path = Len(sitemap_fetched) + 1
             /\ \A i \in 1..Len(sitemap_fetched) : path_entries(sitemap_answers[i]) = <<>>
    /\ sitemap_pc = "returned"
          => IF yielding_paths # {}
             THEN /\ Len(sitemap_fetched) = first_yielding_path
                  /\ sitemap_return = path_entries(sitemap_answers[first_yielding_path])
             ELSE /\ Len(sitemap_fetched) = Len(sitemap_locations)
                  /\ sitemap_return = <<>>

C26_Witness ==
    /\ sitemap_pc = "returned"
    /\ Len(sitemap_fetched) = 3
    /\ sitemap_answers[1].kind = "raises"
    /\ sitemap_answers[2] = SitemapAnswer("xml", << <<" ">> >>, <<>>)
    /\ sitemap_answers[3].cells # <<>>
    /\ Len(sitemap_return) = 2
    /\ path_entries(sitemap_answers[4]) # <<>>
    /\ path_entries(sitemap_answers[4]) # sitemap_return

\* ------------------------------------------------------------------------
\* The batches of the AI re-scoring
\* ------------------------------------------------------------------------

RECURSIVE concat(_)
concat(lists) == IF lists = <<>> THEN <<>> ELSE Head(lists) \o concat(Tail(lists))

\* what the requests made so far leave in the results: nothing for a failed one
kept_results ==
    concat([i \in 1..Len(sent_batches) |->
               IF batch_failed[i] THEN <<>> ELSE llm_reply(llm_style, sent_batches[i])])

keyword_score(url) ==
    url_scores[CHOOSE i \in 1..Len(url_scores) : url_scores[i].url = url].score

\* C27: while the AI re-scoring sends its requests, no URL whose keyword score
\* is 60 or more is sent, no request carries more than 50 URLs, the batches
\* sent and still to send are the uncertain URLs cut in order, and the results
\* are those of the batches that did not fail.
C27_BatchesOfUncertainUrls ==
    /\ \A i \in 1..Len(sent_batches) : Len(sent_batches[i]) <= url_batch_size
    /\ ai_results = kept_results
    /\ discover_pc = "ai_batches"
          => /\ \A i \in 1..Len(sent_batches) : \A k \in 1..Len(sent_batches[i]) :
                    keyword_score(sent_batches[i][k]) < 60
             /\ concat(sent_batches \o pending_batches)
                    = item_urls(uncertain_items(url_scores))
             /\ \A i \in 1..(Len(sent_batches \o pending_batches) - 1) :
                    Len((sent_batches \o pending_batches)[i]) = url_batch_size

C27_Witness ==
    /\ discover_pc = "ai_batches"
    /\ pending_batches = <<>>
    /\ batch_failed = <<FALSE, TRUE, FALSE>>
    /\ Len(sent_batches[3]) = 2
    /\ ai_results # <<>>
    /\ high_priority(url_scores) # <<>>

\* ------------------------------------------------------------------------
\* The size of the discovered set
\* ------------------------------------------------------------------------

\* C28: the discovered set of discover_urls never holds more than
\* max_discovery URLs.
C28_DiscoveredWithinLimit ==
    discover_pc # "idle" => Cardinality(discovered_urls) <= max_discovery

\* ------------------------------------------------------------------------
\* Termination of the crawl loop
\* ------------------------------------------------------------------------

budget_left == max_discovery_requests - discovery_count

in_crawl_loop == discover_pc = "crawl" /\ discover_pc' = "crawl"

uses_budget ==
    /\ discovery_count' = discovery_count + 1
    /\ fetch_attempts' = fetch_attempts + 1

drops_visited_entry ==
    /\ discovery_count' = discovery_count
    /\ fetch_attempts' = fetch_attempts
    /\ Head(urls_to_process) \in processed_urls
    /\ urls_to_process' = Tail(urls_to_process)

\* C29: the crawl loop ends whatever the fetches give: the requests made never
\* exceed the budget, every iteration either uses one unit of the budget or
\* drops an already-visited entry from the queue, and a run that is in the
\* loop reaches the point where its condition fails.
C29_CrawlLoopTerminates ==
    /\ [](discover_pc = "crawl" => budget_left >= 0)
    /\ [][in_crawl_loop => uses_budget \/ drops_visited_entry]_vars
    /\ (discover_pc = "crawl") ~> (discover_pc = "crawl" /\ ~crawl_continues)

C29_Witness ==
    /\ discover_pc = "crawl"
    /\ ~crawl_continues
    /\ skipped_entries > 0
    /\ fetch_attempts >= 2

====
